---------------------------- MODULE Spec2Model ----------------------------
(***************************************************************************)
(* A model of the NST-Caramel gameplay scripts:                            *)
(*   - PowerupBoxFactory / PowerupBox  (bascenev1lib/actor/powerupbox.py)   *)
(*   - AssaultGame                     (bascenev1lib/game/assault.py)       *)
(*   - ConquestFlag / ConquestGame     (bascenev1lib/game/conquest.py)      *)
(*   - MFGame                          (bascenev1lib/game/musical_flags.py) *)
(*   - OneoOneGame                     (bascenev1lib/game/one-o-one.py)     *)
(*   - chat handler                    (nst/chat_handler.py)                *)
(*   - clone_object / replace_methods  (nst/utils.py, nst/actor/spaz.py)    *)
(* Each component has its own specification (SpecFactory, SpecBox,          *)
(* SpecAssault, SpecConquest, SpecMf, SpecOo, SpecChat, SpecCls); the       *)
(* variables of the other components are held at their idle value.         *)
(*                                                                         *)
(* Times are counted in tenths of a second (the period of the capture       *)
(* timers), so a timer of c seconds is the integer 10 * c.  The scripts     *)
(* keep these timers as floats and step them by 0.1 * n; the rounding of    *)
(* that arithmetic can move the tick on which a timer crosses zero by one   *)
(* tick, and moves no timer outside the range the comparisons keep it in.   *)
(***************************************************************************)
EXTENDS Integers, Sequences, FiniteSets, Bags, TLC

VARIABLES
    factory,    \* PowerupBoxFactory: [lastpoweruptype]
    fcall,      \* observation of the last get_random_powerup_type call
    box,        \* the PowerupBox under test (fields of the object, its node, its timers)
    boxObs,     \* observation of the messages delivered to / sent by the box
    ag,         \* AssaultGame: settings, host time, teams' score and capture state
    agObs,      \* observation of the last AssaultGame operation
    cq,         \* ConquestGame with its ConquestFlags
    cqObs,      \* observation of the last ConquestGame operation
    mf,         \* MFGame (Musical Flags): players, round state, pending timers
    oo,         \* OneoOneGame: queue, duel slot, scores, hitpoints, timers
    chat,       \* chat handler: the speaking avatar and its stacked text
    cls,        \* vanilla_spaz.Spaz, its clone SpazClass and the calls through them
    topo,       \* Conquest: an ownership of the flags and what the game derives from it
    spaz        \* Spaz: the grab cooldown, the wave gesture and their timers

factoryVars == <<factory, fcall>>
boxVars     == <<box, boxObs>>
assaultVars == <<ag, agObs>>
conquestVars == <<cq, cqObs>>
\* The variables of the components that follow the four above.
restVars    == <<mf, oo, chat, cls, topo, spaz>>
vars        == <<factory, fcall, box, boxObs, ag, agObs, cq, cqObs, mf, oo, chat, cls, topo, spaz>>

None == "none"

(***************************************************************************)
(*                 PowerupBoxFactory.get_random_powerup_type               *)
(***************************************************************************)

\* The 9 powerup kinds (PowerupBox.poweruptype).
PowerupTypes ==
    {"triple_bombs", "punch", "ice_bombs", "impact_bombs", "land_mines",
     "sticky_bombs", "shield", "health", "curse"}

\* The kinds that occur in self._powerupdist: every kind the host's default
\* distribution lists with a frequency >= 1 (all nine).
PowerupDist == PowerupTypes

\* Mutant of PickType: the curse-follow rule is left out.
PickTypeNoCurseRule(last, forcetype, excludetypes) ==
    IF forcetype # None THEN {forcetype}
    ELSE PowerupDist \ excludetypes

\* The values get_random_powerup_type can return for the given
\* _lastpoweruptype and arguments.  The retry loop ends with a member of the
\* distribution outside excludetypes; when there is none the loop never ends
\* and the call returns nothing (the empty set).
PickType(last, forcetype, excludetypes) ==
    IF forcetype # None THEN {forcetype}
    ELSE IF last = "curse" THEN {"health"}
    ELSE PowerupDist \ excludetypes

\* One call of get_random_powerup_type(forcetype, excludetypes).  fcall keeps
\* what the caller saw of it:
\*   fcall.nExcluded   : the number of types in excludetypes;
\*   fcall.retExcluded : the returned type is a member of excludetypes;
\*   fcall.owed  : before this call, a call had returned 'curse' and no call
\*                 without forcetype had been made since;
\*   fcall.prev  : what the call before this one returned.
GetRandomPowerupType(forcetype, excludetypes) ==
    \E ptype \in PickType(factory.lastpoweruptype, forcetype, excludetypes) :
        /\ factory' = [factory EXCEPT !.lastpoweruptype = ptype]
        /\ fcall' = [forcetype    |-> forcetype,
                     nExcluded    |-> Cardinality(excludetypes),
                     retExcluded  |-> ptype \in excludetypes,
                     ret          |-> ptype,
                     prev         |-> fcall.ret,
                     owed         |-> fcall.owes,
                     owes         |-> IF ptype = "curse" THEN TRUE
                                      ELSE IF forcetype = None THEN FALSE
                                      ELSE fcall.owes]

ForcedDraw ==
    /\ \E forcetype \in PowerupTypes : GetRandomPowerupType(forcetype, {})
    /\ UNCHANGED <<boxVars, assaultVars, conquestVars, restVars>>

RandomDraw ==
    /\ \E excludetypes \in SUBSET PowerupTypes :
           GetRandomPowerupType(None, excludetypes)
    /\ UNCHANGED <<boxVars, assaultVars, conquestVars, restVars>>

\* PowerupBoxFactory.__init__
NewFactory == [lastpoweruptype |-> None]

\* No call has been made yet.
NoCall ==
    [forcetype |-> None, nExcluded |-> 0, retExcluded |-> FALSE, ret |-> None,
     prev |-> None, owed |-> FALSE, owes |-> FALSE]

(***************************************************************************)
(*                               PowerupBox                                *)
(***************************************************************************)

\* Bound: messages delivered to one box.
MaxBoxMsgs == 4
\* Bound: the longest position sequence tried by the constructor.
MaxPosLen == 4

BadType == "not_a_real_type"

NoBox ==
    [ctor |-> None, poweruptype |-> None, powersgiven |-> FALSE,
     frozen |-> FALSE, light |-> FALSE, node |-> None, flashing |-> FALSE,
     flashTimer |-> FALSE, dieTimer |-> FALSE, deleteTimers |-> 0]

NoBoxObs ==
    [posLen |-> 0, argType |-> None, msgs |-> 0, accepts |-> 0,
     grantSeq |-> 0, popups |-> 0, powerupMsgs |-> 0, touches |-> 0,
     error |-> None]

\* Mutant of CtorOutcome: the position is only checked to be long enough.
CtorOutcomeLaxPosition(posLen, ptype) ==
    IF ptype \notin PowerupTypes THEN "ValueError"
    ELSE IF posLen < 3 THEN "ValueError"
    ELSE "ok"

\* PowerupBox.__init__: the texture lookup rejects an unknown type, then the
\* position must have exactly 3 coordinates; both raise ValueError before the
\* prop node is created.
CtorOutcome(posLen, ptype) ==
    IF ptype \notin PowerupTypes THEN "ValueError"
    ELSE IF posLen # 3 THEN "ValueError"
    ELSE "ok"

Construct(posLen, ptype, expire) ==
    /\ box.ctor = None
    /\ LET res == CtorOutcome(posLen, ptype) IN
       /\ box' = IF res = "ok"
                 THEN [NoBox EXCEPT !.ctor = "ok", !.poweruptype = ptype,
                                    !.node = "alive",
                                    !.flashTimer = expire, !.dieTimer = expire]
                 ELSE [NoBox EXCEPT !.ctor = res]
       /\ boxObs' = [NoBoxObs EXCEPT !.posLen = posLen, !.argType = ptype]
    /\ UNCHANGED <<factoryVars, assaultVars, conquestVars, restVars>>

NodeExists(b) == b.node \in {"alive", "dying"}

\* handlemessage(bs.DieMessage(immediate)).
HandleDie(b, immediate) ==
    IF NodeExists(b)
    THEN IF immediate
         THEN [b EXCEPT !.node = "deleted"]
         ELSE [b EXCEPT !.node = "dying", !.deleteTimers = @ + 1]
    ELSE b

\* powerup_popup: a popup for a known type.
Popups(b) == IF b.poweruptype \in PowerupTypes THEN 1 ELSE 0

\* handlemessage(bs.PowerupAcceptMessage()); `assert self.node` raises
\* once the node is gone.
HandleAccept ==
    /\ box.ctor = "ok"
    /\ boxObs.msgs < MaxBoxMsgs
    /\ IF NodeExists(box)
       THEN /\ box' = HandleDie([box EXCEPT !.powersgiven = TRUE], FALSE)
            /\ boxObs' = [boxObs EXCEPT !.msgs = @ + 1, !.accepts = @ + 1,
                                        !.grantSeq = @ + 1,
                                        !.popups = @ + Popups(box),
                                        !.error = None]
       ELSE /\ box' = box
            /\ boxObs' = [boxObs EXCEPT !.msgs = @ + 1, !.accepts = @ + 1,
                                        !.error = "AssertionError"]
    /\ UNCHANGED <<factoryVars, assaultVars, conquestVars, restVars>>

\* Mutant of ForwardsPowerup: every touch is forwarded.
ForwardsPowerupAlways(b) == TRUE

\* handlemessage(_TouchedMessage()), its guard: if not self._powersgiven
ForwardsPowerup(b) == ~b.powersgiven

\* handlemessage(_TouchedMessage()): sent by the node's material at contact,
\* so only while the node exists.
HandleTouched ==
    /\ box.ctor = "ok"
    /\ NodeExists(box)
    /\ boxObs.msgs < MaxBoxMsgs
    /\ box' = box
    /\ boxObs' = [boxObs EXCEPT !.msgs = @ + 1,
                                !.touches = @ + 1,
                                !.powerupMsgs = IF ForwardsPowerup(box) THEN @ + 1 ELSE @,
                                !.error = None]
    /\ UNCHANGED <<factoryVars, assaultVars, conquestVars, restVars>>

HandleDieMessage ==
    /\ box.ctor = "ok"
    /\ boxObs.msgs < MaxBoxMsgs
    /\ \E immediate \in BOOLEAN : box' = HandleDie(box, immediate)
    /\ boxObs' = [boxObs EXCEPT !.msgs = @ + 1, !.error = None]
    /\ UNCHANGED <<factoryVars, assaultVars, conquestVars, restVars>>

HandleOutOfBounds ==
    /\ box.ctor = "ok"
    /\ boxObs.msgs < MaxBoxMsgs
    /\ box' = HandleDie(box, FALSE)
    /\ boxObs' = [boxObs EXCEPT !.msgs = @ + 1, !.error = None]
    /\ UNCHANGED <<factoryVars, assaultVars, conquestVars, restVars>>

\* freeze_powerup (with create_light).
FreezePowerup(b) ==
    IF ~NodeExists(b) \/ b.frozen THEN b
    ELSE [b EXCEPT !.frozen = TRUE, !.light = TRUE]

\* handlemessage(bs.HitMessage): ice freezes, a punch is ignored, anything
\* else kills the box.
HandleHit ==
    /\ box.ctor = "ok"
    /\ boxObs.msgs < MaxBoxMsgs
    /\ \E hit \in {"ice", "punch", "explosion"} :
          box' = CASE hit = "ice"   -> FreezePowerup(box)
                   [] hit = "punch" -> box
                   [] OTHER         -> HandleDie(box, FALSE)
    /\ boxObs' = [boxObs EXCEPT !.msgs = @ + 1, !.error = None]
    /\ UNCHANGED <<factoryVars, assaultVars, conquestVars, restVars>>

\* bs.timer(0.1, self.node.delete)
NodeDeleteTimer ==
    /\ box.deleteTimers > 0
    /\ box' = [box EXCEPT !.deleteTimers = @ - 1,
                          !.node = IF @ = "dying" THEN "deleted" ELSE @]
    /\ UNCHANGED <<boxObs, factoryVars, assaultVars, conquestVars, restVars>>

\* _start_flashing, 7.15 s after construction.
StartFlashing ==
    /\ box.flashTimer
    /\ box' = [box EXCEPT !.flashTimer = FALSE,
                          !.flashing = IF NodeExists(box) THEN TRUE ELSE @]
    /\ UNCHANGED <<boxObs, factoryVars, assaultVars, conquestVars, restVars>>

\* The expiry timer, 9.0 s after construction (after the flashing timer):
\* handlemessage(bs.DieMessage()).
ExpireTimer ==
    /\ box.dieTimer
    /\ ~box.flashTimer
    /\ box' = [HandleDie(box, FALSE) EXCEPT !.dieTimer = FALSE]
    /\ UNCHANGED <<boxObs, factoryVars, assaultVars, conquestVars, restVars>>

(***************************************************************************)
(*                               AssaultGame                               *)
(***************************************************************************)

\* Bound: host time (in tenths of a second) up to which the capture timer of
\* the activity is followed.
MaxAsTime == 11
\* Bounds: the largest 'Capture Time' (seconds) and 'Score to Win' settings.
MaxCaptureTime == 1
MaxScoreToWin == 2
\* Bound: the number of region and death events of a game that are followed.
MaxAsEvents == 3

\* The session: three teams of one player each.  The script loops over
\* self.teams whatever their number; a capturing list can hold players of
\* two teams only when the session has more than two.
AsTeams == 1..3
AsPlayers == 1..3
AsTeamOf(p) == <<1, 2, 3>>[p]

Min(a, b) == IF a < b THEN a ELSE b

SeqToSet(s) == {s[i] : i \in 1..Len(s)}

RECURSIVE SeqRemove(_, _)
\* list.remove(x) for a list that holds x at most once.
SeqRemove(s, x) ==
    IF s = <<>> THEN <<>>
    ELSE IF Head(s) = x THEN Tail(s)
    ELSE <<Head(s)>> \o SeqRemove(Tail(s), x)

\* Team.__init__ and create_team, for every team, then on_begin, with the
\* settings 'Capture Time' = ct and 'Score to Win' = stw.
NewAssault(ct, stw) ==
    [capture_time      |-> 10 * ct,
     score_to_win      |-> stw,
     time              |-> 0,
     last_score_time   |-> 0,
     score             |-> [t \in AsTeams |-> 0],
     capturing_players |-> [t \in AsTeams |-> <<>>],
     capture_timer     |-> [t \in AsTeams |-> 10 * ct],
     alive             |-> [p \in AsPlayers |-> TRUE],
     end_calls         |-> 0,
     results           |-> <<>>]

NoAsObs == [scoreCalls |-> 0, scored |-> {}, mixed |-> {}, events |-> 0]

\* Mutant of ResetTeamCapture: the capturing list is kept.
ResetTeamCaptureKeepsList(g, team) ==
    [g EXCEPT !.capture_timer[team] = g.capture_time]

\* _reset_team_capture
ResetTeamCapture(g, team) ==
    [g EXCEPT !.capturing_players[team] = <<>>,
              !.capture_timer[team] = g.capture_time]

\* end_game: every team's score goes to the results.
EndGame(g) ==
    [g EXCEPT !.end_calls = @ + 1, !.results = g.score]

\* Mutant of ScoreGuard: the timestamp guard is left out.
ScoreGuardAlways(g) == TRUE

\* "Prevent multiple simultaneous scores": bs.time() != self._last_score_time
ScoreGuard(g) == g.time # g.last_score_time

\* _handle_score(enemy_team_being_captured) on the pair st = [g, o] of the
\* game and the observation of the running tick.
HandleScore(st, enemy) ==
    LET g == st.g
        o == [st.o EXCEPT !.scoreCalls = @ + 1]
    IN  IF g.capturing_players[enemy] = <<>> THEN [g |-> g, o |-> o]
        ELSE LET scoring == AsTeamOf(g.capturing_players[enemy][1]) IN
             IF ScoreGuard(g)
             THEN LET g1 == [g EXCEPT !.last_score_time = g.time,
                                      !.score[scoring] = @ + 1]
                      g2 == ResetTeamCapture(g1, enemy)
                      g3 == IF g2.score[scoring] >= g2.score_to_win
                            THEN EndGame(g2) ELSE g2
                  IN  [g |-> g3, o |-> [o EXCEPT !.scored = @ \cup {enemy}]]
             ELSE [g |-> g, o |-> o]

\* Mutant of IsContested: a mixed contest is not noticed.
IsContestedNever(players) == FALSE

\* "If multiple teams are in the region, contest it."
IsContested(players) ==
    \E i \in 1..Len(players) : AsTeamOf(players[i]) # AsTeamOf(players[1])

\* The body of the loop of _update_capture_timer for one team.
UpdateTeam(st, team) ==
    LET g0 == st.g
        pruned == SelectSeq(g0.capturing_players[team],
                            LAMBDA p : g0.alive[p])
        g == [g0 EXCEPT !.capturing_players[team] = pruned]
    IN  IF pruned # <<>>
        THEN IF IsContested(pruned)
             THEN [g |-> ResetTeamCapture(g, team),
                   o |-> [st.o EXCEPT !.mixed = @ \cup {team}]]
             ELSE LET g1 == [g EXCEPT !.capture_timer[team] =
                                          @ - Min(Len(pruned), 3)]
                  IN  IF g1.capture_timer[team] <= 0
                      THEN HandleScore([g |-> g1, o |-> st.o], team)
                      ELSE [g |-> g1, o |-> st.o]
        ELSE [g |-> ResetTeamCapture(g, team), o |-> st.o]

RECURSIVE UpdateTeamsFrom(_, _)
\* for team in self.teams, from team t on.
UpdateTeamsFrom(st, t) ==
    IF t \notin AsTeams THEN st
    ELSE UpdateTeamsFrom(UpdateTeam(st, t), t + 1)

\* _update_capture_timer, fired by the repeating 0.1 s timer.
UpdateCaptureTimer ==
    /\ ag.time < MaxAsTime
    /\ LET st == UpdateTeamsFrom(
                    [g |-> [ag EXCEPT !.time = @ + 1],
                     o |-> [NoAsObs EXCEPT !.events = agObs.events]],
                    1)
       IN  /\ ag' = st.g
           /\ agObs' = st.o
    /\ UNCHANGED <<factoryVars, boxVars, conquestVars, restVars>>

\* The observation after an event of the players.
AsEvent == [NoAsObs EXCEPT !.events = agObs.events + 1]

\* _handle_base_connect(team): a live player of another team enters the
\* region of team's base.  An avatar touches one base region at a time.
HandleBaseConnect(team, p) ==
    /\ agObs.events < MaxAsEvents
    /\ ag.alive[p]
    /\ AsTeamOf(p) # team
    /\ \A t \in AsTeams : p \notin SeqToSet(ag.capturing_players[t])
    /\ ag' = [ag EXCEPT !.capturing_players[team] = Append(@, p)]
    /\ agObs' = AsEvent
    /\ UNCHANGED <<factoryVars, boxVars, conquestVars, restVars>>

\* _handle_base_disconnect(team)
HandleBaseDisconnect(team, p) ==
    /\ agObs.events < MaxAsEvents
    /\ p \in SeqToSet(ag.capturing_players[team])
    /\ ag' = [ag EXCEPT !.capturing_players[team] = SeqRemove(@, p)]
    /\ agObs' = AsEvent
    /\ UNCHANGED <<factoryVars, boxVars, conquestVars, restVars>>

\* handlemessage(bs.PlayerDiedMessage): the dead player leaves every
\* capturing list and a respawn is scheduled.
AsPlayerDied(p) ==
    /\ agObs.events < MaxAsEvents
    /\ ag.alive[p]
    /\ ag' = [ag EXCEPT !.alive[p] = FALSE,
                        !.capturing_players =
                            [t \in AsTeams |-> SeqRemove(@[t], p)]]
    /\ agObs' = AsEvent
    /\ UNCHANGED <<factoryVars, boxVars, conquestVars, restVars>>

\* respawn_player: the scheduled respawn.
AsRespawn(p) ==
    /\ ~ag.alive[p]
    /\ ag' = [ag EXCEPT !.alive[p] = TRUE]
    /\ agObs' = [AsEvent EXCEPT !.events = agObs.events]
    /\ UNCHANGED <<factoryVars, boxVars, conquestVars, restVars>>

(***************************************************************************)
(*                       ConquestFlag / ConquestGame                       *)
(***************************************************************************)

\* Bound: host time (tenths of a second) up to which the flags' 0.1 s
\* capture timers are followed.
MaxCqTime == 11
\* Bound: the largest number of flag points of the map.
MaxFlags == 2
\* Bound: the largest 'Capture Rate' setting (seconds).
MaxCaptureRate == 1

\* Bound: the number of region and death events of a game that are followed.
MaxCqEvents == 3

\* The 2 s during which another team's attempt blocks progress, in tenths.
LockoutTime == 20

\* A flag without an owner has team None.
NoTeam == 0

\* The session: two teams; players 1 and 3 are team mates.
CqTeams == 1..2
CqPlayers == 1..3
CqTeamOf(p) == <<1, 2, 1>>[p]

\* ConquestGame.__init__ (no flag exists before on_begin).
NewConquest(rate, neutral) ==
    [capture_rate             |-> 10 * rate,
     neutral_flags_on_capture |-> neutral,
     begun                    |-> FALSE,
     nflags                   |-> 0,
     time                     |-> 0,
     alive                    |-> [p \in CqPlayers |-> FALSE],
     respawn                  |-> [p \in CqPlayers |-> FALSE],
     flags_held               |-> [t \in CqTeams |-> 0],
     team                     |-> <<>>,
     players_contesting       |-> <<>>,
     capture_time             |-> <<>>,
     previous_capturing_team  |-> <<>>,
     previous_team            |-> <<>>,
     last_capture_attempt_time |-> <<>>,
     last_capturing_team_for_lockout |-> <<>>,
     end_calls                |-> 0,
     results                  |-> <<>>]

NoCqObs == [captured |-> {}, neutralized |-> {}, clamped |-> {}, locked |-> {},
            events |-> 0]

\* The observation after an event of the players.
CqEvent == [NoCqObs EXCEPT !.events = cqObs.events + 1]

CqFlags(g) == 1..g.nflags

\* The number of flags a team owns.
FlagsOf(g, t) == Cardinality({f \in CqFlags(g) : g.team[f] = t})

\* ConquestGame.end_game: each team's flags_held goes to the results.
CqEndGame(g) == [g EXCEPT !.end_calls = @ + 1, !.results = g.flags_held]

\* Mutant of UpdateScores: flags_held is not recounted.
UpdateScoresNoRecount(g) == g

\* Mutant of UpdateScores: the win check is left out.
UpdateScoresNoWinCheck(g) ==
    [g EXCEPT !.flags_held = [t \in CqTeams |-> FlagsOf(g, t)]]

\* ConquestGame._update_scores: recount, then end the game for a team that
\* holds every flag.
UpdateScores(g) ==
    LET g1 == [g EXCEPT !.flags_held = [t \in CqTeams |-> FlagsOf(g, t)]]
        winners == {t \in CqTeams : g1.flags_held[t] = g1.nflags}
    IN  IF winners = {} THEN g1
        ELSE [CqEndGame(g1) EXCEPT !.end_calls = g1.end_calls + Cardinality(winners)]

\* ConquestGame.on_begin: a ConquestFlag per flag point (ConquestFlag.__init__),
\* one flag for each team while flags remain, the scores, the joiners' spawn.
OnBegin(n) ==
    /\ ~cq.begun
    /\ LET g == [cq EXCEPT
                   !.begun = TRUE,
                   !.nflags = n,
                   !.team = [f \in 1..n |-> IF f \in CqTeams THEN f ELSE NoTeam],
                   !.players_contesting = [f \in 1..n |-> {}],
                   !.capture_time = [f \in 1..n |-> cq.capture_rate],
                   !.previous_capturing_team = [f \in 1..n |-> NoTeam],
                   !.previous_team = [f \in 1..n |-> NoTeam],
                   !.last_capture_attempt_time = [f \in 1..n |-> 0],
                   !.last_capturing_team_for_lockout = [f \in 1..n |-> NoTeam],
                   !.alive = [p \in CqPlayers |-> TRUE]]
       IN  cq' = UpdateScores(g)
    /\ cqObs' = NoCqObs
    /\ UNCHANGED <<factoryVars, boxVars, assaultVars, restVars>>

\* Mutant of LockedOut: no lockout after another team's attempt.
LockedOutNever(g, f, capturing_team) == FALSE

\* ConquestGame.on_team_join: a team that joins a begun game has the scores
\* recounted.
OnTeamJoin(g) == IF g.begun THEN UpdateScores(g) ELSE g

\* "Check for 2-second lockout if different team tried to capture"
LockedOut(g, f, capturing_team) ==
    /\ g.last_capturing_team_for_lockout[f] # NoTeam
    /\ g.last_capturing_team_for_lockout[f] # capturing_team
    /\ g.time - g.last_capture_attempt_time[f] < LockoutTime

\* The timer's move of one tick: down for a capture of a neutral or enemy
\* flag, up for the owner's recapture.
Progress(g, f, capturing_team, multiplier) ==
    IF g.team[f] = NoTeam \/ g.team[f] # capturing_team
    THEN [g EXCEPT !.capture_time[f] = @ - multiplier,
                   !.previous_capturing_team[f] = capturing_team,
                   !.last_capturing_team_for_lockout[f] = capturing_team,
                   !.last_capture_attempt_time[f] = g.time]
    ELSE [g EXCEPT !.capture_time[f] = @ + multiplier]

\* Mutant of TakesFlag: an owned flag goes to the capturing team directly.
TakesFlagAlways(g, f) == TRUE

\* "if self._team is None or not self._leave_neutral": the capturing team
\* takes the flag; otherwise the flag becomes neutral.
TakesFlag(g, f) == g.team[f] = NoTeam \/ ~g.neutral_flags_on_capture

\* Mutant of ResetTimer: the timer is not reset after a capture.
ResetTimerNot(g, f) == [g EXCEPT !.previous_capturing_team[f] = NoTeam]

\* "Reset timer for next capture and clear capture tracking"
ResetTimer(g, f) ==
    [g EXCEPT !.capture_time[f] = g.capture_rate,
              !.previous_capturing_team[f] = NoTeam]

\* Mutant of ClampTimer: the timer is not clamped at capture_rate.
ClampTimerNot(g, f) == [g EXCEPT !.previous_capturing_team[f] = NoTeam]

\* "elif self._capture_time >= self.activity.capture_rate"
ClampTimer(g, f) ==
    [g EXCEPT !.capture_time[f] = g.capture_rate,
              !.previous_capturing_team[f] = NoTeam]

\* "Give the flag to a team (or neutralize it) if the counter hits zero".
\* self._team is assigned before the team setter runs, so the setter records
\* the new owner as the previous one; the scores are updated and the timer is
\* reset.  A timer at or above capture_rate is clamped.
Settle(st, f, capturing_team) ==
    LET g == st.g IN
    IF g.capture_time[f] <= 0
    THEN IF TakesFlag(g, f)
         THEN [g |-> ResetTimer(
                        UpdateScores([g EXCEPT !.team[f] = capturing_team,
                                               !.previous_team[f] = capturing_team]),
                        f),
               o |-> [st.o EXCEPT !.captured = @ \cup {f}]]
         ELSE [g |-> ResetTimer(
                        UpdateScores([g EXCEPT !.team[f] = NoTeam,
                                               !.previous_team[f] = NoTeam]),
                        f),
               o |-> [st.o EXCEPT !.neutralized = @ \cup {f}]]
    ELSE IF g.capture_time[f] >= g.capture_rate
    THEN [g |-> ClampTimer(g, f),
          o |-> [st.o EXCEPT !.clamped = @ \cup {f}]]
    ELSE st

\* ConquestFlag.handle_capture of flag f (text, colour and sound of the flag
\* are left out).
HandleCapture(st, f) ==
    LET g0 == st.g
        contesting == {p \in g0.players_contesting[f] : g0.alive[p]}
        g == [g0 EXCEPT !.players_contesting[f] = contesting]
        teams_in_region == {CqTeamOf(p) : p \in contesting}
    IN  IF contesting = {} THEN [g |-> g, o |-> st.o]
        ELSE IF Cardinality(teams_in_region) > 1 THEN [g |-> g, o |-> st.o]
        ELSE LET capturing_team == CHOOSE t \in teams_in_region : TRUE
                 multiplier == Min(Cardinality(contesting), 3)
             IN  IF LockedOut(g, f, capturing_team)
                 THEN [g |-> g, o |-> [st.o EXCEPT !.locked = @ \cup {f}]]
                 ELSE Settle([g |-> Progress(g, f, capturing_team, multiplier),
                              o |-> st.o], f, capturing_team)

RECURSIVE HandleCaptureFrom(_, _)
\* The flags' timers fire in the order the flags were made.
HandleCaptureFrom(st, f) ==
    IF f > st.g.nflags THEN st
    ELSE HandleCaptureFrom(HandleCapture(st, f), f + 1)

\* A period of the 0.1 s update timers: handle_capture of every flag.
CqTick ==
    /\ cq.begun
    /\ cq.time < MaxCqTime
    /\ LET st == HandleCaptureFrom([g |-> [cq EXCEPT !.time = @ + 1],
                                   o |-> [NoCqObs EXCEPT !.events = cqObs.events]], 1)
       IN  /\ cq' = st.g
           /\ cqObs' = st.o
    /\ UNCHANGED <<factoryVars, boxVars, assaultVars, restVars>>

\* _handle_region_player_connect -> add_player_to_region: a live avatar
\* enters the region of flag f.  An avatar is in one region at a time.
CqConnect(f, p) ==
    /\ cq.begun
    /\ cqObs.events < MaxCqEvents
    /\ f \in CqFlags(cq)
    /\ cq.alive[p]
    /\ \A h \in CqFlags(cq) : p \notin cq.players_contesting[h]
    /\ cq' = [cq EXCEPT !.players_contesting[f] = @ \cup {p}]
    /\ cqObs' = CqEvent
    /\ UNCHANGED <<factoryVars, boxVars, assaultVars, restVars>>

\* _handle_region_player_disconnect -> remove_player_from_region
CqDisconnect(f, p) ==
    /\ cq.begun
    /\ cqObs.events < MaxCqEvents
    /\ f \in CqFlags(cq)
    /\ p \in cq.players_contesting[f]
    /\ cq' = [cq EXCEPT !.players_contesting[f] = @ \ {p}]
    /\ cqObs' = CqEvent
    /\ UNCHANGED <<factoryVars, boxVars, assaultVars, restVars>>

\* on_team_join of the session's teams.
CqTeamJoin ==
    /\ cqObs.events < MaxCqEvents
    /\ cq' = OnTeamJoin(cq)
    /\ cqObs' = CqEvent
    /\ UNCHANGED <<factoryVars, boxVars, assaultVars, restVars>>

\* Mutant of RespawnsAfterDeath: neutral flags are not looked at.
RespawnsWithOwnFlagOnly(g, p) == g.flags_held[CqTeamOf(p)] > 0

\* "if player.team.flags_held > 0 ... else: neutral_flags = [...]": whether
\* the death of player p is followed by respawn_player.
RespawnsAfterDeath(g, p) ==
    \/ g.flags_held[CqTeamOf(p)] > 0
    \/ \E f \in CqFlags(g) : g.team[f] = NoTeam

\* handlemessage(bs.PlayerDiedMessage): a respawn is scheduled when the team
\* holds a flag or a neutral flag exists.  The dead player stays in the
\* flag's list until handle_capture prunes it.
CqPlayerDied(p) ==
    /\ cq.begun
    /\ cqObs.events < MaxCqEvents
    /\ cq.alive[p]
    /\ cq' = [cq EXCEPT
                !.alive[p] = FALSE,
                !.respawn[p] = RespawnsAfterDeath(cq, p)]
    /\ cqObs' = CqEvent
    /\ UNCHANGED <<factoryVars, boxVars, assaultVars, restVars>>

\* The scheduled respawn (seconds later: handle_capture has pruned the dead
\* player by then).
CqRespawn(p) ==
    /\ cq.respawn[p]
    /\ \A f \in CqFlags(cq) : p \notin cq.players_contesting[f]
    /\ cq' = [cq EXCEPT !.alive[p] = TRUE, !.respawn[p] = FALSE]
    /\ cqObs' = [NoCqObs EXCEPT !.events = cqObs.events]
    /\ UNCHANGED <<factoryVars, boxVars, assaultVars, restVars>>

(***************************************************************************)
(*                         MFGame (Musical Flags)                          *)
(***************************************************************************)

\* Bound: the number of deaths by accident, departures and late joins of a
\* game that are followed.
MaxMfEvents == 1

\* Timer delays, in units of 0.05 s.
MfSecond == 20          \* bs.timer(1, self._timeround, True)
MfFirstCheck == 60      \* bs.timer(3, self.checkEnd)
MfKillDelay == 70       \* bs.timer(3.5, self.killRound)
MfMakeDelay == 71       \* bs.timer(3.55, self.makeRound)
MfCheckRespawnDelay == 2  \* bs.timer(0.1, check_respawn)
MfCheckEndDelay == 10   \* bs.timer(0.5, self.checkEnd)
MfRespawnDelay == 50    \* self.respawn_player(player, 2.5)
MfCurseDelay == 46      \* bs.timer(2.3, player.actor.curse_explode)
MfEndDelay == 50        \* bs.timer(2.5, self.end_game)
MfLeaveDelay == 0       \* bs.timer(0, self.checkEnd)
\* The smallest 'Max Round Time' setting (seconds).
MfRoundTime == 15
\* The bonus of the last survivor.
MfBonus == 10

\* The session: three players, players 1 and 3 on one team.
MfPlayers == 1..3
MfTeams == 1..2
MfTeamOf(p) == <<1, 2, 1>>[p]
NoPlayer == 0

\* MFGame.__init__; Player.__init__ gives done = False, survived = True.
\* lostRound, bonus, spawnedNow, eliminatedNow and events observe the game:
\* the round in which a player lost survived (0: not lost), the bonus given
\* to each team, the players spawned and eliminated by the last step, and the
\* number of events of the players so far.
NewMf ==
    [begun            |-> FALSE,
     end_calls        |-> 0,
     results          |-> <<>>,
     players          |-> {},
     gone             |-> {},
     done             |-> [p \in MfPlayers |-> FALSE],
     survived         |-> [p \in MfPlayers |-> TRUE],
     alive            |-> [p \in MfPlayers |-> FALSE],
     score            |-> [t \in MfTeams |-> 0],
     roundNum         |-> 0,
     numPickedUp      |-> 0,
     nflags           |-> 0,
     flagsLeft        |-> 0,
     spawned          |-> {},
     should_die_occur |-> TRUE,
     round_time       |-> MfRoundTime,
     reset_round_time |-> MfRoundTime,
     timers           |-> EmptyBag,
     lostRound        |-> [p \in MfPlayers |-> 0],
     bonus            |-> [t \in MfTeams |-> 0],
     spawnedNow       |-> {},
     eliminatedNow    |-> {},
     events           |-> 0]

\* bs.timer(d, callback)
MfAddTimer(m, d, kind, p) ==
    [m EXCEPT !.timers = @ (+) SetToBag({[rem |-> d, kind |-> kind, p |-> p]})]

\* handlemessage(bs.PlayerDiedMessage)
MfPlayerDied(m, p) ==
    MfAddTimer(MfAddTimer(m, MfCheckRespawnDelay, "check_respawn", p),
               MfCheckEndDelay, "checkEnd", NoPlayer)

\* The avatar of p dies, which sends the PlayerDiedMessage of p.
MfKill(m, p) ==
    IF m.alive[p] THEN MfPlayerDied([m EXCEPT !.alive[p] = FALSE], p) ELSE m

\* spawn_player
MfSpawn(m, p) ==
    [m EXCEPT !.alive[p] = TRUE, !.spawnedNow = @ \cup {p}]

\* The players of self.players still marked survived.
MfSurvivors(m) == {p \in m.players : m.survived[p]}

\* end_game
MfEndGame(m) ==
    [m EXCEPT !.end_calls = @ + 1,
              !.results = IF m.end_calls = 0 THEN m.score ELSE @]

\* checkEnd
CheckEnd(m) ==
    IF Cardinality(MfSurvivors(m)) <= 1
    THEN MfAddTimer(
            [m EXCEPT !.score = [t \in MfTeams |->
                          @[t] + MfBonus * Cardinality({p \in MfSurvivors(m) : MfTeamOf(p) = t})],
                      !.bonus = [t \in MfTeams |->
                          @[t] + MfBonus * Cardinality({p \in MfSurvivors(m) : MfTeamOf(p) = t})]],
            MfEndDelay, "end_game", NoPlayer)
    ELSE m

RECURSIVE MfSpawnFrom(_, _)
\* makeRound: "if not player.is_alive(): self.spawn_player(...)" for the
\* survivors, from player p on.
MfSpawnFrom(m, p) ==
    IF p \notin MfPlayers THEN m
    ELSE MfSpawnFrom(IF p \in MfSurvivors(m) /\ ~m.alive[p] THEN MfSpawn(m, p) ELSE m,
                     p + 1)

\* makeRound
MakeRound(m) ==
    LET surv == MfSurvivors(m)
        c == Cardinality(surv)
        m1 == [m EXCEPT
                 !.score = [t \in MfTeams |->
                               @[t] + Cardinality({p \in surv : MfTeamOf(p) = t})],
                 !.roundNum = @ + 1,
                 !.spawned = surv,
                 !.should_die_occur = TRUE,
                 !.round_time = m.reset_round_time,
                 !.done = [p \in MfPlayers |-> IF p \in m.players THEN FALSE ELSE @[p]]]
        m2 == MfSpawnFrom(m1, 1)
        m3 == IF c = 0 THEN CheckEnd(m2) ELSE m2
    IN  [m3 EXCEPT !.nflags = IF c > 1 THEN c - 1 ELSE 0,
                   !.flagsLeft = IF c > 1 THEN c - 1 ELSE 0]

RECURSIVE MfKillFrom(_, _)
\* killRound: DieMessage to every live player, from player p on.
MfKillFrom(m, p) ==
    IF p \notin MfPlayers THEN m
    ELSE MfKillFrom(IF p \in m.players THEN MfKill(m, p) ELSE m, p + 1)

\* killRound
KillRound(m) ==
    [MfKillFrom([m EXCEPT !.numPickedUp = 0], 1) EXCEPT !.flagsLeft = 0]

\* player.survived = False, observed.
MfEliminate(m, p) ==
    [m EXCEPT !.survived[p] = FALSE,
              !.lostRound[p] = IF m.survived[p] THEN m.roundNum ELSE @,
              !.eliminatedNow = @ \cup {p}]

\* Mutant of MfTimeoutLoses: the player keeps survived.
MfTimeoutKeeps(m, p) ==
    IF p \in m.spawned /\ ~m.done[p] THEN MfKill(m, p) ELSE m

\* _timeround, the body of the loop over self.spawned: a player without a
\* flag loses survived and is blown up.
MfTimeoutLoses(m, p) ==
    IF p \in m.spawned /\ ~m.done[p] THEN MfKill(MfEliminate(m, p), p) ELSE m

RECURSIVE MfTimeoutFrom(_, _)
MfTimeoutFrom(m, p) ==
    IF p \notin MfPlayers THEN m
    ELSE MfTimeoutFrom(MfTimeoutLoses(m, p), p + 1)

\* _timeround (the repeating timer is armed again by MfFire).
TimeRound(m) ==
    IF m.round_time = 0 /\ m.should_die_occur
    THEN LET m1 == MfTimeoutFrom([m EXCEPT !.should_die_occur = FALSE], 1)
             m2 == MfAddTimer(MfAddTimer(m1, MfKillDelay, "killRound", NoPlayer),
                              MfMakeDelay, "makeRound", NoPlayer)
         IN  [m2 EXCEPT !.round_time = m.reset_round_time]
    ELSE [m EXCEPT !.round_time = @ - 1]

\* check_respawn
CheckRespawn(m, p) ==
    IF ~m.done[p] /\ m.survived[p]
    THEN MfAddTimer(m, MfRespawnDelay, "respawn", p)
    ELSE m

\* The timer of respawn_player: the player is spawned if still in the game.
MfRespawn(m, p) == IF p \in m.players THEN MfSpawn(m, p) ELSE m

\* player.actor.curse_explode, 2.3 s after the last flag was taken.
MfCurseExplode(m, p) == MfKill(m, p)

\* Mutant of MfNoFlag: a player without a flag keeps survived.
MfNoFlagKeeps(m, p) == m

\* handlemessage(FlagPickedUpMessage), the loop over self.spawned when the
\* last flag was taken: a player without a flag loses survived, is knocked
\* out and blown up 2.3 s later.  Without an avatar the knockout raises and
\* the rest is skipped.
MfNoFlag(m, p) ==
    IF p \in m.spawned /\ ~m.done[p]
    THEN LET m1 == MfEliminate(m, p)
         IN  IF m.alive[p] THEN MfAddTimer(m1, MfCurseDelay, "curse_explode", p)
             ELSE m1
    ELSE m

RECURSIVE MfNoFlagFrom(_, _)
MfNoFlagFrom(m, p) ==
    IF p \notin MfPlayers THEN m
    ELSE MfNoFlagFrom(MfNoFlag(m, p), p + 1)

\* handlemessage(FlagPickedUpMessage) for the avatar of p: the flag and the
\* avatar are removed.
FlagPickedUp(m, p) ==
    LET m1 == MfKill([m EXCEPT !.numPickedUp = @ + 1,
                               !.done[p] = TRUE,
                               !.flagsLeft = @ - 1], p)
    IN  IF m1.numPickedUp = m1.nflags
        THEN MfAddTimer(
                MfAddTimer(MfNoFlagFrom([m1 EXCEPT !.round_time = m.reset_round_time], 1),
                           MfKillDelay, "killRound", NoPlayer),
                MfMakeDelay, "makeRound", NoPlayer)
        ELSE m1

\* The callback of a timer.
MfCallback(m, t) ==
    CASE t.kind = "timeround"     -> MfAddTimer(TimeRound(m), MfSecond, "timeround", NoPlayer)
      [] t.kind = "checkEnd"      -> CheckEnd(m)
      [] t.kind = "killRound"     -> KillRound(m)
      [] t.kind = "makeRound"     -> MakeRound(m)
      [] t.kind = "check_respawn" -> CheckRespawn(m, t.p)
      [] t.kind = "respawn"       -> MfRespawn(m, t.p)
      [] t.kind = "curse_explode" -> MfCurseExplode(m, t.p)
      [] t.kind = "end_game"      -> MfEndGame(m)

\* The timers after d units of time have passed.
MfAge(b, d) ==
    [u \in {[t EXCEPT !.rem = @ - d] : t \in BagToSet(b)} |->
        b[[u EXCEPT !.rem = @ + d]]]

\* What a step starts from: nothing spawned or eliminated yet.
MfStep(m) == [m EXCEPT !.spawnedNow = {}, !.eliminatedNow = {}]

\* The activity runs until end_game has ended it.
MfRunning == mf.begun /\ mf.end_calls = 0

\* Time passes until the next timer is due, and that timer fires.
MfFire ==
    /\ MfRunning
    /\ \E t \in BagToSet(mf.timers) :
          /\ \A u \in BagToSet(mf.timers) : t.rem <= u.rem
          /\ mf' = MfCallback(
                      [MfStep(mf) EXCEPT
                          !.timers = MfAge(mf.timers (-) SetToBag({t}), t.rem)],
                      t)
    /\ UNCHANGED <<factoryVars, boxVars, assaultVars, conquestVars, oo, chat, cls, topo, spaz>>

\* Mutant of MfLateJoin: the late joiner keeps survived.
MfLateJoinSurvives(m, p) ==
    [m EXCEPT !.players = @ \cup {p}, !.events = @ + 1]

\* on_player_join, "if self.has_begun()": player.survived = False, no spawn.
MfLateJoin(m, p) ==
    [m EXCEPT !.players = @ \cup {p}, !.survived[p] = FALSE, !.events = @ + 1]

\* on_player_join: before on_begin the player is spawned; afterwards the
\* player is marked as not surviving and waits.
MfJoin(p) ==
    /\ mf.end_calls = 0
    /\ p \notin mf.players \cup mf.gone
    /\ mf.begun => mf.events < MaxMfEvents
    /\ mf' = IF mf.begun
             THEN MfLateJoin(MfStep(mf), p)
             ELSE MfSpawn([MfStep(mf) EXCEPT !.players = @ \cup {p}], p)
    /\ UNCHANGED <<factoryVars, boxVars, assaultVars, conquestVars, oo, chat, cls, topo, spaz>>

\* on_player_leave: the player and its avatar are gone.
MfLeave(p) ==
    /\ MfRunning
    /\ p \in mf.players
    /\ mf.events < MaxMfEvents
    /\ mf' = MfAddTimer([MfStep(mf) EXCEPT !.players = @ \ {p},
                                           !.gone = @ \cup {p},
                                           !.alive[p] = FALSE,
                                           !.events = @ + 1],
                        MfLeaveDelay, "checkEnd", NoPlayer)
    /\ UNCHANGED <<factoryVars, boxVars, assaultVars, conquestVars, oo, chat, cls, topo, spaz>>

\* on_begin
MfOnBegin ==
    /\ ~mf.begun
    /\ mf.players # {}
    /\ mf' = MfAddTimer(
                MfAddTimer(MakeRound([MfStep(mf) EXCEPT !.begun = TRUE]),
                           MfFirstCheck, "checkEnd", NoPlayer),
                MfSecond, "timeround", NoPlayer)
    /\ UNCHANGED <<factoryVars, boxVars, assaultVars, conquestVars, oo, chat, cls, topo, spaz>>

\* The avatar of p picks up a flag.
MfPickup(p) ==
    /\ MfRunning
    /\ p \in mf.players
    /\ mf.alive[p]
    /\ mf.flagsLeft > 0
    /\ mf' = FlagPickedUp(MfStep(mf), p)
    /\ UNCHANGED <<factoryVars, boxVars, assaultVars, conquestVars, oo, chat, cls, topo, spaz>>

\* The avatar of p dies by accident (a fall off the map).
MfDie(p) ==
    /\ MfRunning
    /\ p \in mf.players
    /\ mf.alive[p]
    /\ mf.events < MaxMfEvents
    /\ mf' = MfKill([MfStep(mf) EXCEPT !.events = @ + 1], p)
    /\ UNCHANGED <<factoryVars, boxVars, assaultVars, conquestVars, oo, chat, cls, topo, spaz>>

(***************************************************************************)
(*                        OneoOneGame (One-o-One)                          *)
(***************************************************************************)
\* Times are counted in half seconds.  The game reads its clock only as
\* bs.time() - self._last_combat_action_time, kept here as the field idle.
\* The avatars belong to the engine: a hit takes its damage off the
\* hitpoints, an avatar whose hitpoints reach 0 dies, and its death is
\* reported to the game (PlayerDiedMessage) inside the call that killed it.

\* Bound on the half seconds without combat.
MaxOoIdle == 24
\* Bound on the hits, falls, leaves and late joins of a game.
MaxOoEvents == 2
\* bs.timer(1.0, self._update, repeat=True)
OoSecond == 2
\* STALEMATE_TIME
StalemateTime == 20
\* bs.timer(1.5, self._start_next_duel)
OoRefillDelay == 3
\* bs.Timer(0.5, self.end_game), bs.timer(0.5, self.end_game)
OoEndDelay == 1
\* 'Kills to Win Per Player', at its minimum
KillsToWin == 5
\* killer.actor.hitpoints_max
HpMax == 1000
\* The damage a hit by the other duelist can do.
OoHits == {50, 950, 1000}
OoPlayers == 1..3
NoTimer == -1

Max(a, b) == IF a > b THEN a ELSE b

\* No death has been reported in the step.
NoDeath == [victim |-> NoPlayer, killer |-> NoPlayer, scoreBefore |-> 0,
            hpBefore |-> 0, streak |-> 0]

\* OneoOneGame.__init__ with the settings Allow Negative Scores and Kills
\* Partially Heal; Player.__init__, Team.__init__ (every player is a team).
NewOo(neg, heal) ==
    [allow_negative_scores |-> neg,
     kills_heal   |-> heal,
     begun        |-> FALSE,
     ended        |-> FALSE,
     players      |-> {},
     gone         |-> {},
     queue        |-> <<>>,
     current_duel |-> <<>>,
     score        |-> [p \in OoPlayers |-> 0],
     streak       |-> [p \in OoPlayers |-> 0],
     hp           |-> [p \in OoPlayers |-> 0],     \* 0: no live avatar
     idle         |-> 0,
     light        |-> [p \in OoPlayers |-> FALSE],   \* player.stalemate_light
     update       |-> NoTimer,                     \* time to the next _update
     refills      |-> {},                          \* times to the pending _start_next_duel
     round_end    |-> NoTimer,                     \* self._round_end_timer
     win_end      |-> NoTimer,                     \* time to the end_game of a win
     \* observations of the last step
     op           |-> "init",
     death        |-> NoDeath,
     chipDuel     |-> <<>>,                        \* the slot when the damage was computed
     chipDamage   |-> 0,
     chipped      |-> {},                          \* the duelists sent the damage
     cleared      |-> {},                          \* the lights on_duel_action deleted
     events       |-> 0]

\* What a step starts from.
OoStep(m, op) ==
    [m EXCEPT !.op = op, !.death = NoDeath, !.chipDuel = <<>>,
              !.chipDamage = 0, !.chipped = {}, !.cleared = {}]

\* Mutant of OnDuelAction: the warning lights stay.
OnDuelActionKeepsLights(m) == [m EXCEPT !.idle = 0]

\* on_duel_action: the clock restarts and the duelists' lights go.
OnDuelAction(m) ==
    [m EXCEPT !.idle = 0,
              !.light = [p \in OoPlayers |->
                            IF p \in SeqToSet(m.current_duel) THEN FALSE ELSE @[p]],
              !.cleared = {p \in SeqToSet(m.current_duel) : m.light[p]}]

\* _clear_stalemate_lights
ClearStalemateLights(m) ==
    [m EXCEPT !.light = [p \in OoPlayers |->
                            IF p \in SeqToSet(m.current_duel) THEN FALSE ELSE @[p]]]

\* Mutant of StartNextDuel: the slot is filled without looking at its size.
RECURSIVE StartNextDuelNoLimit(_)
StartNextDuelNoLimit(m) ==
    IF m.queue # <<>>
    THEN LET player == Head(m.queue)
         IN  StartNextDuelNoLimit(
                 [m EXCEPT !.queue = Tail(@),
                           !.current_duel = Append(@, player),
                           !.hp[player] = HpMax])
    ELSE [m EXCEPT !.idle = 0]

\* _start_next_duel
RECURSIVE StartNextDuel(_)
StartNextDuel(m) ==
    IF Len(m.current_duel) < 2 /\ m.queue # <<>>
    THEN LET player == Head(m.queue)
         IN  StartNextDuel(
                 [m EXCEPT !.queue = Tail(@),
                           !.current_duel = Append(@, player),
                           !.hp[player] = HpMax])
    ELSE [m EXCEPT !.idle = 0]

\* The heal of a kill in percent of hitpoints_max, by the killer's streak.
HealPercent(streak) ==
    CASE streak = 1 -> 80
      [] streak = 2 -> 60
      [] streak = 3 -> 40
      [] streak = 4 -> 20
      [] OTHER      -> 10

\* Mutant of HealedHp: the heal is added without the cap.
HealedHpNoCap(hp, streak) == hp + (HpMax * HealPercent(streak)) \div 100

\* new_hp of the killer
HealedHp(hp, streak) ==
    Min(HpMax, hp + (HpMax * HealPercent(streak)) \div 100)

\* Mutant of SuicideScore: the score is never clamped.
SuicideScoreNoClamp(neg, score) == score - 1

\* The victim's score after a death without a distinct killer.
SuicideScore(neg, score) ==
    IF neg THEN score - 1 ELSE Max(0, score - 1)

\* Mutant of ScheduleRefill: a death arms no timer.
ScheduleRefillNot(m) == m

\* "bs.timer(1.5, self._start_next_duel)"
ScheduleRefill(m) == [m EXCEPT !.refills = @ \cup {OoRefillDelay}]

\* Mutant of LeaveArena: the victim is queued but stays in the slot.
LeaveArenaKeepsSlot(m, victim) ==
    IF victim \in SeqToSet(m.current_duel)
    THEN [m EXCEPT !.queue = Append(@, victim)]
    ELSE m

\* "Victim leaves the arena and goes to back of queue"
LeaveArena(m, victim) ==
    IF victim \in SeqToSet(m.current_duel)
    THEN [m EXCEPT !.current_duel = SeqRemove(@, victim),
                   !.queue = Append(@, victim)]
    ELSE m

\* handlemessage(PlayerDiedMessage)
OoDied(m, victim, killer) ==
    LET m1 == [m EXCEPT !.streak[victim] = 0,
                        !.light[victim] = FALSE,
                        !.death = [victim |-> victim, killer |-> killer,
                                   scoreBefore |-> m.score[victim],
                                   hpBefore |-> IF killer = NoPlayer THEN 0
                                                ELSE m.hp[killer],
                                   streak |-> IF killer = NoPlayer THEN 0
                                              ELSE m.streak[killer] + 1]]
        m2 == IF killer # NoPlayer /\ killer # victim
              THEN LET streak == m1.streak[killer] + 1
                   IN  [m1 EXCEPT !.score[killer] = @ + 1,
                                  !.streak[killer] = streak,
                                  !.hp[killer] =
                                      IF m1.kills_heal /\ @ > 0
                                      THEN HealedHp(@, streak) ELSE @]
              ELSE [m1 EXCEPT !.score[victim] =
                                  SuicideScore(m1.allow_negative_scores, @)]
        m3 == IF \E p \in OoPlayers : m2.score[p] >= KillsToWin
              THEN [m2 EXCEPT !.win_end = IF @ = NoTimer THEN OoEndDelay ELSE @]
              ELSE m2
        m4 == LeaveArena(m3, victim)
    IN  ScheduleRefill(m4)

\* The engine's part of a HitMessage of flat damage sent to a live avatar.
OoHurt(m, p, damage, by) ==
    LET m1 == [m EXCEPT !.hp[p] = Max(0, @ - damage)]
    IN  IF m1.hp[p] = 0 THEN OoDied(m1, p, by) ELSE m1

\* int((current_time - self._last_combat_action_time - STALEMATE_TIME) * 25.0)
StalemateDamage(idle) ==
    IF idle >= StalemateTime
    THEN ((idle - StalemateTime) * 25) \div 2
    ELSE -(((StalemateTime - idle) * 25) \div 2)

\* _apply_stalemate_damage, the loop over self._current_duel: the list is
\* read again at every turn of the loop, by position.
RECURSIVE OoChipFrom(_, _, _)
OoChipFrom(m, i, damage) ==
    IF i > Len(m.current_duel) THEN m
    ELSE LET player == m.current_duel[i]
         IN  IF m.hp[player] > 0
             THEN LET m1 == OoHurt([m EXCEPT !.chipped = @ \cup {player}],
                                   player, damage, NoPlayer)
                  IN  OoChipFrom([m1 EXCEPT !.light[player] = m1.hp[player] > 0],
                                 i + 1, damage)
             ELSE OoChipFrom(m, i + 1, damage)

\* _apply_stalemate_damage
ApplyStalemateDamage(m) ==
    LET damage == StalemateDamage(m.idle)
        m1 == [m EXCEPT !.chipDamage = damage, !.chipDuel = m.current_duel]
    IN  IF damage > 0 THEN OoChipFrom(m1, 1, damage) ELSE m1

\* _update
OoUpdate(m) ==
    LET m1 == IF Cardinality(m.players) < 1
              THEN [m EXCEPT !.round_end = OoEndDelay] ELSE m
    IN  IF Len(m1.current_duel) = 2
        THEN IF m1.idle > StalemateTime
             THEN ApplyStalemateDamage(m1)
             ELSE ClearStalemateLights(m1)
        ELSE m1

\* The orders random.shuffle can leave the players in.
OoShuffles(S) ==
    {q \in [1..Cardinality(S) -> S] :
        \A i, j \in 1..Cardinality(S) : q[i] = q[j] => i = j}

OoRunning == oo.begun /\ ~oo.ended

OoDueTimer(m) ==
    m.update = 0 \/ 0 \in m.refills \/ m.round_end = 0 \/ m.win_end = 0

OoAgeTimer(t) == IF t = NoTimer THEN NoTimer ELSE t - 1

\* Half a second passes.
OoAdvance ==
    /\ OoRunning
    /\ ~OoDueTimer(oo)
    /\ oo.idle < MaxOoIdle
    /\ oo' = [OoStep(oo, "advance") EXCEPT
                 !.idle = @ + 1,
                 !.update = OoAgeTimer(@),
                 !.refills = {t - 1 : t \in @},
                 !.round_end = OoAgeTimer(@),
                 !.win_end = OoAgeTimer(@)]
    /\ UNCHANGED <<factoryVars, boxVars, assaultVars, conquestVars, mf, chat, cls, topo, spaz>>

\* Half a second passes, for as long as the game runs: the time since the
\* last combat action is counted up to STALEMATE_TIME and held there, so
\* the watchdog finds no stalemate.
OoAdvanceOn ==
    /\ OoRunning
    /\ ~OoDueTimer(oo)
    /\ oo' = [OoStep(oo, "advance") EXCEPT
                 !.idle = Min(@ + 1, StalemateTime),
                 !.update = OoAgeTimer(@),
                 !.refills = {t - 1 : t \in @},
                 !.round_end = OoAgeTimer(@),
                 !.win_end = OoAgeTimer(@)]
    /\ UNCHANGED <<factoryVars, boxVars, assaultVars, conquestVars, mf, chat, cls, topo, spaz>>

\* The repeating timer of on_begin calls _update.
OoUpdateFire ==
    /\ OoRunning
    /\ oo.update = 0
    /\ oo' = OoUpdate([OoStep(oo, "update") EXCEPT !.update = OoSecond])
    /\ UNCHANGED <<factoryVars, boxVars, assaultVars, conquestVars, mf, chat, cls, topo, spaz>>

\* A timer of the death handler calls _start_next_duel.
OoRefillFire ==
    /\ OoRunning
    /\ 0 \in oo.refills
    /\ oo' = StartNextDuel([OoStep(oo, "refill") EXCEPT !.refills = @ \ {0}])
    /\ UNCHANGED <<factoryVars, boxVars, assaultVars, conquestVars, mf, chat, cls, topo, spaz>>

\* A timer calls end_game.
OoEndGame ==
    /\ OoRunning
    /\ oo.round_end = 0 \/ oo.win_end = 0
    /\ oo' = [OoStep(oo, "end_game") EXCEPT !.ended = TRUE]
    /\ UNCHANGED <<factoryVars, boxVars, assaultVars, conquestVars, mf, chat, cls, topo, spaz>>

\* on_player_join
OoJoin(p) ==
    /\ ~oo.ended
    /\ p \notin oo.players \cup oo.gone
    /\ oo.begun => oo.events < MaxOoEvents
    /\ LET m  == [OoStep(oo, "join") EXCEPT
                     !.players = @ \cup {p},
                     !.events = IF oo.begun THEN @ + 1 ELSE @]
           m1 == IF p \notin SeqToSet(m.queue) /\ p \notin SeqToSet(m.current_duel)
                 THEN [m EXCEPT !.queue = Append(@, p)] ELSE m
       IN  oo' = IF m1.begun
                 THEN StartNextDuel([m1 EXCEPT !.round_end = NoTimer])
                 ELSE m1
    /\ UNCHANGED <<factoryVars, boxVars, assaultVars, conquestVars, mf, chat, cls, topo, spaz>>

\* on_player_leave
OoLeave(p) ==
    /\ ~oo.ended
    /\ p \in oo.players
    /\ oo.events < MaxOoEvents
    /\ LET m  == [OoStep(oo, "leave") EXCEPT
                     !.players = @ \ {p}, !.gone = @ \cup {p},
                     !.hp[p] = 0, !.light[p] = FALSE, !.events = @ + 1]
           m1 == [m EXCEPT !.queue = SeqRemove(@, p)]
       IN  oo' = IF p \in SeqToSet(m1.current_duel)
                 THEN StartNextDuel([m1 EXCEPT !.current_duel = SeqRemove(@, p)])
                 ELSE m1
    /\ UNCHANGED <<factoryVars, boxVars, assaultVars, conquestVars, mf, chat, cls, topo, spaz>>

\* on_begin
OoOnBegin ==
    /\ ~oo.begun
    /\ \E q \in OoShuffles(oo.players) :
          oo' = [StartNextDuel([OoStep(oo, "on_begin") EXCEPT
                                   !.begun = TRUE, !.queue = q])
                 EXCEPT !.update = OoSecond, !.idle = 0]
    /\ UNCHANGED <<factoryVars, boxVars, assaultVars, conquestVars, mf, chat, cls, topo, spaz>>

\* DuelPlayerSpaz.handlemessage(HitMessage) of a hit by the other duelist:
\* on_duel_action, then the damage.
OoHit(attacker, victim, damage) ==
    /\ OoRunning
    /\ oo.events < MaxOoEvents
    /\ attacker # victim
    /\ {attacker, victim} \subseteq SeqToSet(oo.current_duel)
    /\ oo.hp[attacker] > 0 /\ oo.hp[victim] > 0
    /\ oo' = OoHurt(OnDuelAction([OoStep(oo, "hit") EXCEPT !.events = @ + 1]),
                    victim, damage, attacker)
    /\ UNCHANGED <<factoryVars, boxVars, assaultVars, conquestVars, mf, chat, cls, topo, spaz>>

\* A duelist falls off the map: a death nobody is blamed for.
OoFall(p) ==
    /\ OoRunning
    /\ oo.events < MaxOoEvents
    /\ oo.hp[p] > 0
    /\ oo' = OoDied([OoStep(oo, "fall") EXCEPT !.hp[p] = 0, !.events = @ + 1],
                    p, NoPlayer)
    /\ UNCHANGED <<factoryVars, boxVars, assaultVars, conquestVars, mf, chat, cls, topo, spaz>>

(***************************************************************************)
(*                      Chat handler (chat_handler.py)                     *)
(***************************************************************************)
\* A string is a sequence of one-character strings.

\* Bound on the length of a chat message drawn from ChatChars.
MaxMsgLen == 1
\* Bound on the length of the text stacked on an avatar.
MaxBufLen == 8

UpperChars == <<"A", "B", "C", "D", "E", "F", "G", "H", "I", "J", "K", "L", "M", "N", "O", "P", "Q", "R", "S", "T", "U", "V", "W", "X", "Y", "Z">>
LowerChars == <<"a", "b", "c", "d", "e", "f", "g", "h", "i", "j", "k", "l", "m", "n", "o", "p", "q", "r", "s", "t", "u", "v", "w", "x", "y", "z">>
UpperSet == SeqToSet(UpperChars)
LowerSet == SeqToSet(LowerChars)

\* The characters the bounded messages are made of.
ChatChars == {"h", "H", "i", "!"}
HELLO == <<"H", "E", "L", "L", "O">>
hello == <<"h", "e", "l", "l", "o">>
Hi == <<"H", "i">>
HeLLo == <<"H", "e", "L", "L", "o", "!", "!">>
hey == <<"h", "e", "y">>
HEY == <<"H", "E", "Y">>
heyyyy == <<"h", "e", "y", "y", "y", "y">>
ChatExamples == {HELLO, hello, Hi, HeLLo, hey, HEY, heyyyy}
ChatMsgs ==
    UNION {[1..n -> ChatChars] : n \in 0..MaxMsgLen} \cup ChatExamples

\* str.lower, on ASCII text
ToLower(c) ==
    IF c \in UpperSet
    THEN LowerChars[CHOOSE i \in 1..Len(UpperChars) : UpperChars[i] = c]
    ELSE c
LowerStr(s) == [i \in 1..Len(s) |-> ToLower(s[i])]

\* str.startswith
StartsWith(s, p) == Len(p) <= Len(s) /\ SubSeq(s, 1, Len(p)) = p

\* The greeting and farewell phrases of in_game_chat.
Greetings ==
    {<<"h", "i">>,
     <<"h", "e", "l", "l", "o">>,
     <<"h", "o", "w", "d", "y">>,
     <<"y", "o">>,
     <<"h", "e", "w", "w", "o">>,
     <<"h", "e", "y">>,
     <<"h", "i">>,
     <<"h", "e", "y", "a">>,
     <<"h", "e", "y", "a", "h">>,
     <<"g", "r", "e", "e", "t", "i", "n", "g", "s">>,
     <<"h", "a", "i">>,
     <<"s", "u", "p">>,
     <<"w", "a", "s", "s", "u", "p">>,
     <<"w", "a", "z", "z", "u", "p">>,
     <<"w", "h", "a", "t", "'", "s", " ", "u", "p">>,
     <<"b", "y", "e">>,
     <<"g", "o", "o", "d", "b", "y", "e">>,
     <<"f", "a", "r", "e", "w", "e", "l", "l">>,
     <<"s", "e", "e", " ", "y", "a">>,
     <<"s", "e", "e", " ", "y", "o", "u">>,
     <<"s", "e", "e", " ", "y", "'", "a", "l", "l">>,
     <<"s", "e", "e", " ", "y", "'", "a", "l", "l", " ", "l", "a", "t", "e", "r">>,
     <<"c", "y", "a">>,
     <<"b", "a", "b", "y", "e">>,
     <<"b", "b", "y", "e">>,
     <<"c", "i", "a", "o">>,
     <<"g", "b", "y", "e">>,
     <<"g", "o", "o", "d", " ", "n", "i", "g", "h", "t">>,
     <<"g", "o", "o", "d", "n", "i", "g", "h", "t">>,
     <<"g", "n">>,
     <<"a", "r", "r", "i", "v", "e", "d", "e", "r", "c", "i", " ", "r", "o", "m", "a">>,
     <<"a", "d", "i", "o", "s">>,
     <<"h", "a", "v", "e", " ", "f", "u", "n">>}

\* Mutant of IsGreeting: the whole message has to be a phrase.
IsGreetingExact(msg) == LowerStr(msg) \in Greetings

\* msg.lower().startswith((...))
IsGreeting(msg) == \E p \in Greetings : StartsWith(LowerStr(msg), p)

\* re.sub(r'[^a-zA-Z]', '', msg)
RECURSIVE StripNonAlpha(_)
StripNonAlpha(s) ==
    IF s = <<>> THEN <<>>
    ELSE IF Head(s) \in UpperSet \cup LowerSet
         THEN <<Head(s)>> \o StripNonAlpha(Tail(s))
         ELSE StripNonAlpha(Tail(s))

\* The loop of get_shouting: the number of letters with isupper().
RECURSIVE CountUpper(_)
CountUpper(s) ==
    IF s = <<>> THEN 0
    ELSE (IF Head(s) \in UpperSet THEN 1 ELSE 0) + CountUpper(Tail(s))

\* Mutant of GetShouting: short texts are not set to 0.
GetShoutingNoFloor(msg) ==
    LET text == StripNonAlpha(msg)
    IN  IF Len(text) < 1 THEN [num |-> 0, den |-> 1]
        ELSE [num |-> CountUpper(text), den |-> Len(text)]

\* get_shouting; the result num / den is kept as the two integers.
GetShouting(msg) ==
    LET text == StripNonAlpha(msg)
    IN  IF Len(text) < 3 THEN [num |-> 0, den |-> 1]
        ELSE [num |-> CountUpper(text), den |-> Len(text)]

\* "bs.Timer(3, reset_chat)", in seconds
ChatResetTime == 3

\* No chat message has been handled.
NoChat ==
    [paused      |-> FALSE,      \* activity.globalsnode.paused
     alive       |-> FALSE,      \* the speaking player's avatar is alive
     chatmessage |-> <<>>,       \* spaz.chatmessage
     chatnodetime |-> <<>>,      \* spaz.chatnodetime: <<n>> is a timer with n s to run
     since       |-> ChatResetTime,
                                 \* time since the last accepted message, up to 3 s
     \* observation of the last handle_chat_message
     op          |-> "init",
     msg         |-> <<>>,
     shouting    |-> [num |-> 0, den |-> 1],
     popup       |-> FALSE,      \* a ChatMessagePopupText was made
     wave        |-> FALSE,      \* celebrate_l or celebrate_r sent to the node
     celebrate   |-> FALSE,      \* celebrate sent to the node
     cleared     |-> <<>>]       \* the text reset_chat has cleared

ChatStep(c, op) ==
    [c EXCEPT !.op = op, !.msg = <<>>, !.shouting = [num |-> 0, den |-> 1],
              !.popup = FALSE, !.wave = FALSE, !.celebrate = FALSE,
              !.cleared = <<>>]

\* ChatMessagePopupText.__init__: the sound and the gesture of the text.
PopupText(c, text) ==
    LET s == GetShouting(text)
    IN  [c EXCEPT !.popup = TRUE, !.shouting = s,
                  !.celebrate = 4 * s.num > 3 * s.den]

\* Mutant of StartResetTimer: a timer that is pending is kept.
StartResetTimerKeepsPending(c) ==
    IF c.chatnodetime # <<>> THEN [c EXCEPT !.since = 0]
    ELSE [c EXCEPT !.chatnodetime = <<ChatResetTime>>, !.since = 0]

\* "spaz.chatnodetime = bs.Timer(3, reset_chat)": the Timer the attribute
\* held is released by the assignment, which cancels it.
StartResetTimer(c) ==
    [c EXCEPT !.chatnodetime = <<ChatResetTime>>, !.since = 0]

\* in_game_chat for a client that has a player (found) or has none.
InGameChatOf(c, msg, found) ==
    IF c.paused \/ ~found \/ ~c.alive THEN c
    ELSE LET c1 == [c EXCEPT !.chatmessage = @ \o msg \o <<"\n">>]
             c2 == StartResetTimer(PopupText(c1, c1.chatmessage))
         IN  [c2 EXCEPT !.wave = IsGreeting(msg)]

\* handle_chat_message while hosting
HandleChatMessage(msg, found) ==
    /\ Len(chat.chatmessage) + Len(msg) + 1 <= MaxBufLen
    /\ chat' = IF Len(msg) < 1 THEN ChatStep(chat, "chat")
               ELSE InGameChatOf([ChatStep(chat, "chat") EXCEPT !.msg = msg],
                                 msg, found)
    /\ UNCHANGED <<factoryVars, boxVars, assaultVars, conquestVars, mf, oo, cls, topo, spaz>>

\* reset_chat, run by the timer of in_game_chat when its 3 s are over
ResetChat ==
    /\ chat.chatnodetime = <<0>>
    /\ chat' = [ChatStep(chat, "reset_chat")
                   EXCEPT !.chatmessage = <<>>, !.chatnodetime = <<>>,
                          !.cleared = chat.chatmessage]
    /\ UNCHANGED <<factoryVars, boxVars, assaultVars, conquestVars, mf, oo, cls, topo, spaz>>

\* The game is paused or resumed.
ChatPause ==
    /\ chat' = [ChatStep(chat, "pause") EXCEPT !.paused = ~@]
    /\ UNCHANGED <<factoryVars, boxVars, assaultVars, conquestVars, mf, oo, cls, topo, spaz>>

\* The player's avatar dies, or a new one is spawned.
ChatSpaz ==
    /\ chat' = [ChatStep(chat, "spaz")
                   EXCEPT !.alive = ~@, !.chatmessage = <<>>,
                          !.chatnodetime = <<>>, !.since = ChatResetTime]
    /\ UNCHANGED <<factoryVars, boxVars, assaultVars, conquestVars, mf, oo, cls, topo, spaz>>

\* A second of the activity's time passes while a reset is pending and not
\* due; the time stands still while the game is paused.
ChatTick ==
    /\ ~chat.paused
    /\ chat.chatnodetime # <<>>
    /\ chat.chatnodetime # <<0>>
    /\ chat' = [ChatStep(chat, "tick")
                   EXCEPT !.chatnodetime = <<@[1] - 1>>,
                          !.since = IF @ < ChatResetTime THEN @ + 1 ELSE @]
    /\ UNCHANGED <<factoryVars, boxVars, assaultVars, conquestVars, mf, oo, cls, topo, spaz>>

(***************************************************************************)
(*        clone_object / replace_methods (nst/utils.py, nst/actor/spaz.py)  *)
(***************************************************************************)
\* A class is its __dict__: a map from member names to the member bound to
\* the name.  The members are the vanilla class's own one ("vanilla"), the
\* method of the overriding class ("nst") or none ("absent").

ClsNames == {"__init__", "on_punch_press", "equip_shields", "set_grab_spaz"}
\* The names vanilla_spaz.Spaz defines itself.
VanillaNames == {"__init__", "on_punch_press", "equip_shields"}
\* What the overriding class's __dict__ holds under a name: nothing, a
\* callable, or a value that is not callable.
SourceKinds == {"absent", "method", "data"}
NoClass == <<>>

\* vanilla_spaz.Spaz as imported.
VanillaSpaz ==
    [n \in ClsNames |-> IF n \in VanillaNames THEN "vanilla" ELSE "absent"]

\* No clone made, nothing replaced, nothing called.
NewCls ==
    [live      |-> VanillaSpaz,     \* vanilla_spaz.Spaz.__dict__
     clone     |-> NoClass,         \* SpazClass.__dict__
     early     |-> FALSE,           \* the clone was made before any replacement
     replaced  |-> FALSE,           \* replace_methods has run on the live class
     \* observation of the last step
     op        |-> "init",
     called    |-> "",
     reached   |-> "",
     reentered |-> FALSE]

ClsStep(c, op) ==
    [c EXCEPT !.op = op, !.called = "", !.reached = "", !.reentered = FALSE]

\* clone_object: type(cls.__name__, cls.__bases__, dict(cls.__dict__))
CloneObject(c) == [c EXCEPT !.clone = c.live, !.early = ~c.replaced]

\* setattr(target_object, name, v) for the callables of source_object
Patched(target, source) ==
    [n \in ClsNames |-> IF source[n] = "method" THEN "nst" ELSE target[n]]

\* Mutant of ReplaceMethods: the clone is patched along with the live class.
ReplaceMethodsAndClone(c, source) ==
    [c EXCEPT !.live = Patched(@, source),
              !.clone = IF @ = NoClass THEN @ ELSE Patched(@, source),
              !.replaced = TRUE]

\* replace_methods(vanilla_spaz.Spaz, Spaz)
ReplaceMethods(c, source) ==
    [c EXCEPT !.live = Patched(@, source), !.replaced = TRUE]

\* A call of a method through the live class.  An overriding method of a
\* vanilla name calls SpazClass.<name>(self, ...), as Spaz.__init__ does.
CallMethod(c, name) ==
    LET viaClone == c.live[name] = "nst" /\ name \in VanillaNames
    IN  [c EXCEPT !.called = name,
                  !.reached = IF viaClone THEN c.clone[name] ELSE c.live[name],
                  !.reentered = viaClone /\ c.clone[name] = "nst"]

ClsClone ==
    /\ cls' = CloneObject(ClsStep(cls, "clone_object"))
    /\ UNCHANGED <<factoryVars, boxVars, assaultVars, conquestVars, mf, oo, chat, topo, spaz>>

ClsReplace(source) ==
    /\ cls' = ReplaceMethods(ClsStep(cls, "replace_methods"), source)
    /\ UNCHANGED <<factoryVars, boxVars, assaultVars, conquestVars, mf, oo, chat, topo, spaz>>

ClsCall(name) ==
    /\ cls.live[name] # "absent"
    /\ (cls.live[name] = "nst" /\ name \in VanillaNames) => cls.clone # NoClass
    /\ cls' = CallMethod(ClsStep(cls, "call"), name)
    /\ UNCHANGED <<factoryVars, boxVars, assaultVars, conquestVars, mf, oo, chat, topo, spaz>>

(***************************************************************************)
(*   Conquest: _check_last_stand, spawn_player, _get_player_spawn_position  *)
(***************************************************************************)
\* These methods read the ownership of the flags only, so they are applied
\* to every ownership of up to MaxTopoFlags flags by up to three teams.  The
\* map has one spawn_by_flag_points entry per flag point; spawn indices and
\* team indices count from 0 as in the code, flag f has spawn index f - 1.

MaxTopoFlags == 4
TopoTeams == 1..3
TopoOwners == {NoTeam} \cup TopoTeams

SHIELD_HP == 650
LastStandDecayRate == 20

\* The status colour: (1, 1, 1, 1) or the colour of a team.
WhiteColor == NoTeam
TeamColor(t) == t

NoShield == [hitpoints |-> 0, decay_rate |-> 0]

\* The flags as on_begin and the captures left them, nothing applied yet.
NewTopo(team, contested) ==
    [team        |-> team,          \* flag.team of self._flags, in order
     contested   |-> contested,     \* flag.is_being_captured()
     op          |-> "init",
     flag        |-> 0,             \* the flag _check_last_stand was given
     text        |-> "",            \* that flag's _status_text.text
     color       |-> WhiteColor,    \* that flag's _status_text.color
     player_team |-> NoTeam,        \* the team of the spawned player
     spawn       |-> 0,             \* the index into spawn_by_flag_points
     shield      |-> NoShield]      \* the spawned spaz's shield

TopoStep(c, op) ==
    [c EXCEPT !.op = op, !.flag = 0, !.text = "", !.color = WhiteColor,
              !.player_team = NoTeam, !.spawn = 0, !.shield = NoShield]

TopoFlags(c) == 1..Len(c.team)

\* team.flags_held as _update_scores left it (the count of the team's flags).
TopoFlagsHeld(c, t) == Cardinality({f \in TopoFlags(c) : c.team[f] = t})

RECURSIVE OtherTeamsHaveRestFrom(_, _, _, _)
\* "for f in self._flags": a flag outside own that has no owner or belongs
\* to the team breaks the loop with False; flags of other teams are passed
\* over.
OtherTeamsHaveRestFrom(c, own, team, f) ==
    IF f > Len(c.team) THEN TRUE
    ELSE IF f \notin own /\ c.team[f] # team /\ c.team[f] # NoTeam
    THEN OtherTeamsHaveRestFrom(c, own, team, f + 1)
    ELSE IF f \notin own /\ c.team[f] = NoTeam THEN FALSE
    ELSE IF f \notin own /\ c.team[f] = team THEN FALSE
    ELSE OtherTeamsHaveRestFrom(c, own, team, f + 1)

\* "other_teams_have_rest"
OtherTeamsHaveRest(c, own, team) == OtherTeamsHaveRestFrom(c, own, team, 1)

\* ConquestGame._check_last_stand(flag): nothing for a flag without owner;
\* otherwise the label in the owner's colour, or the colour back to white.
CheckLastStand(c, f) ==
    IF c.team[f] = NoTeam THEN [c EXCEPT !.flag = f]
    ELSE LET team_flags == TopoFlagsHeld(c, c.team[f])
             other_teams_have_rest == OtherTeamsHaveRest(c, {f}, c.team[f])
         IN  IF team_flags = 1 /\ other_teams_have_rest
             THEN [c EXCEPT !.flag = f,
                            !.text = "Last stand!",
                            !.color = TeamColor(c.team[f])]
             ELSE [c EXCEPT !.flag = f, !.color = WhiteColor]

\* Mutant of SpawnChoices: a team's single flag is not taken when contested.
SpawnChoicesUncontestedOnly(c, t) ==
    LET spawn_count == Len(c.team)
        idx == 0..(spawn_count - 1)
        team_spawns == {i \in idx : c.team[i + 1] = t /\ ~c.contested[i + 1]}
        enemy_spawns == {i \in idx : c.team[i + 1] # NoTeam /\ c.team[i + 1] # t}
        neutral_spawns == {i \in idx : c.team[i + 1] = NoTeam}
    IN  IF team_spawns # {} THEN team_spawns
        ELSE IF enemy_spawns # {} THEN enemy_spawns
        ELSE IF neutral_spawns # {} THEN neutral_spawns
        ELSE {(t - 1) % spawn_count}

\* ConquestGame._get_player_spawn_position: the indices random.choice can
\* return for a player of team t (the jitter around the point is left out).
SpawnChoices(c, t) ==
    LET spawn_count == Len(c.team)
        idx == 0..(spawn_count - 1)
        uncontested == {i \in idx : c.team[i + 1] = t /\ ~c.contested[i + 1]}
        team_spawns == IF TopoFlagsHeld(c, t) = 1
                       THEN {i \in idx : c.team[i + 1] = t}
                       ELSE uncontested
        enemy_spawns == {i \in idx : c.team[i + 1] # NoTeam /\ c.team[i + 1] # t}
        neutral_spawns == {i \in idx : c.team[i + 1] = NoTeam}
    IN  IF team_spawns # {} THEN team_spawns
        ELSE IF enemy_spawns # {} THEN enemy_spawns
        ELSE IF neutral_spawns # {} THEN neutral_spawns
        ELSE {(t - 1) % spawn_count}

\* Mutant of EquipShields: the second argument is taken as the hit points.
EquipShieldsHitpoints(decay, decay_rate) ==
    [hitpoints |-> decay_rate, decay_rate |-> IF decay THEN 10 ELSE 0]

\* Spaz.equip_shields(decay, decay_rate): "self.shield_hitpoints = SHIELD_HP",
\* "self.shield_decay_rate = decay_rate if decay else 0".
EquipShields(decay, decay_rate) ==
    [hitpoints |-> SHIELD_HP, decay_rate |-> IF decay THEN decay_rate ELSE 0]

\* "Check if team has only one flag and should get shields"
LastStandShield(c, t) ==
    LET team_flags == {f \in TopoFlags(c) : c.team[f] = t}
    IN  /\ Cardinality(team_flags) = 1
        /\ OtherTeamsHaveRest(c, team_flags, t)

\* ConquestGame.spawn_player of a player of team t at spawn index i.
SpawnPlayer(c, t, i) ==
    [c EXCEPT !.player_team = t,
              !.spawn = i,
              !.shield = IF LastStandShield(c, t)
                         THEN EquipShields(TRUE, LastStandDecayRate)
                         ELSE NoShield]

\* handle_capture's closing call for flag f, the status colour being prior.
TopoCheckLastStand(f, prior) ==
    /\ f \in TopoFlags(topo)
    /\ topo' = CheckLastStand([TopoStep(topo, "check_last_stand")
                                  EXCEPT !.color = prior], f)
    /\ UNCHANGED <<factoryVars, boxVars, assaultVars, conquestVars, mf, oo, chat, cls, spaz>>

\* A player of team t is spawned; i is random.choice's pick.
TopoSpawnPlayer(t, i) ==
    /\ Len(topo.team) > 0
    /\ i \in SpawnChoices(topo, t)
    /\ topo' = SpawnPlayer(TopoStep(topo, "spawn_player"), t, i)
    /\ UNCHANGED <<factoryVars, boxVars, assaultVars, conquestVars, mf, oo, chat, cls, spaz>>

(***************************************************************************)
(*        Spaz (nst/actor/spaz.py): the grab cooldown and the wave gesture  *)
(***************************************************************************)
\* Time is counted in tenths of a second, the period of the wave check.

PICKUP_CD_PERSON_UNIVERSAL == 8
HOLD_TO_WAVE_TIME == 8
WaveCheckTime == 1

\* Bound on the one-shot set_grab_spaz timers pending at one time.
MaxGrabTimers == 2

\* What node.hold_node can be: nothing, another avatar's node, another node.
HoldNodes == {"none", "spaz", "object"}

\* Spaz.__init__
NewSpaz ==
    [life               |-> "alive",  \* "alive"; "dead": the node exists, is_alive() is
                                      \* false; "gone": the node exists no more
     hold_node          |-> "none",   \* the type of node.hold_node
     can_grab_spaz      |-> TRUE,
     waving             |-> FALSE,
     holding_pickup     |-> FALSE,
     holding_punch      |-> FALSE,
     wave_sound_node    |-> FALSE,    \* the attribute is not None
     hold_to_wave_timer |-> "none",   \* "none", "pending" or "fired" (the object is kept)
     hold_to_wave_left  |-> 0,        \* time until a pending hold-to-wave timer fires
     wave_check_timer   |-> FALSE,    \* the repeating timer is set
     wave_check_left    |-> 0,        \* time until its next run
     grab_timers        |-> {},       \* times left of the bs.timer(0.8, set_grab_spaz(True))
     \* observation
     op                 |-> "init",
     since              |-> PICKUP_CD_PERSON_UNIVERSAL]
                                      \* time since the last press that found another
                                      \* avatar held, saturating at 0.8 s

SpazStep(s, op) == [s EXCEPT !.op = op]

\* Spaz.set_grab_spaz(c)
SetGrabSpaz(s, c) ==
    IF s.life # "alive" THEN s ELSE [s EXCEPT !.can_grab_spaz = c]

\* The closing lines of on_punch_press, on_bomb_press and on_pickup_press:
\* "if ... self.node.hold_node.getnodetype() == 'spaz'": set_grab_spaz(False)
\* and a one-shot timer for set_grab_spaz(True).  Earlier timers stay.
GrabCooldown(s) ==
    IF s.hold_node = "spaz"
    THEN [SetGrabSpaz(s, FALSE)
             EXCEPT !.grab_timers = @ \cup {PICKUP_CD_PERSON_UNIVERSAL},
                    !.since = IF s.life = "alive" THEN 0 ELSE @]
    ELSE s

\* Spaz.stop_waving
StopWaving(s) ==
    IF s.life = "gone" THEN s
    ELSE [s EXCEPT !.waving = FALSE,
                   !.hold_to_wave_timer = "none",
                   !.hold_to_wave_left = 0,
                   !.wave_sound_node = FALSE,
                   !.wave_check_timer = FALSE,
                   !.wave_check_left = 0]

\* Spaz.wave: the gesture, and the sound node if there is none yet.
Wave(s) ==
    IF s.life = "alive" THEN [s EXCEPT !.wave_sound_node = TRUE] ELSE s

\* Spaz.start_waving
StartWaving(s) ==
    IF s.life # "alive" THEN s
    ELSE IF s.holding_pickup
    THEN [s EXCEPT !.waving = TRUE,
                   !.wave_check_timer = TRUE,
                   !.wave_check_left = WaveCheckTime]
    ELSE s

\* Spaz.check_continue_waving
CheckContinueWaving(s) ==
    IF s.life # "alive" THEN s
    ELSE IF ~s.holding_pickup \/ s.hold_node # "none" THEN StopWaving(s)
    ELSE Wave(s)

\* Spaz.on_punch_press
OnPunchPress(s) == GrabCooldown([s EXCEPT !.holding_punch = TRUE])

\* Spaz.on_punch_release
OnPunchRelease(s) == [s EXCEPT !.holding_punch = FALSE]

\* Spaz.on_bomb_press; blocked: the avatar is frozen or knocked out.
OnBombPress(s, blocked) ==
    IF s.life # "alive" \/ blocked THEN s ELSE GrabCooldown(s)

\* Spaz.on_pickup_press
OnPickupPress(s) ==
    LET s1 == GrabCooldown([s EXCEPT !.holding_pickup = TRUE])
    IN  IF s1.hold_to_wave_timer = "none" /\ s1.hold_node = "none"
        THEN [s1 EXCEPT !.hold_to_wave_timer = "pending",
                        !.hold_to_wave_left = HOLD_TO_WAVE_TIME]
        ELSE s1

\* Spaz.on_pickup_release
OnPickupRelease(s) ==
    LET s1 == [s EXCEPT !.holding_pickup = FALSE]
    IN  IF s1.waving /\ s1.hold_to_wave_timer # "none" THEN StopWaving(s1)
        ELSE IF s1.hold_to_wave_timer # "none"
        THEN [s1 EXCEPT !.hold_to_wave_timer = "none", !.hold_to_wave_left = 0]
        ELSE s1

\* A timer of the avatar is due.
SpazTimerDue(s) ==
    \/ 0 \in s.grab_timers
    \/ s.hold_to_wave_timer = "pending" /\ s.hold_to_wave_left = 0
    \/ s.wave_check_timer /\ s.wave_check_left = 0

\* The player's input reaches the avatar as long as its node exists.
SpazPunchPress ==
    /\ spaz.life # "gone"
    /\ spaz.hold_node = "spaz" => Cardinality(spaz.grab_timers) < MaxGrabTimers
    /\ spaz' = OnPunchPress(SpazStep(spaz, "punch_press"))
    /\ UNCHANGED <<factoryVars, boxVars, assaultVars, conquestVars, mf, oo, chat, cls, topo>>

SpazPunchRelease ==
    /\ spaz.life # "gone"
    /\ spaz.holding_punch
    /\ spaz' = OnPunchRelease(SpazStep(spaz, "punch_release"))
    /\ UNCHANGED <<factoryVars, boxVars, assaultVars, conquestVars, mf, oo, chat, cls, topo>>

SpazBombPress(blocked) ==
    /\ spaz.life # "gone"
    /\ spaz.hold_node = "spaz" => Cardinality(spaz.grab_timers) < MaxGrabTimers
    /\ spaz' = OnBombPress(SpazStep(spaz, "bomb_press"), blocked)
    /\ UNCHANGED <<factoryVars, boxVars, assaultVars, conquestVars, mf, oo, chat, cls, topo>>

SpazPickupPress ==
    /\ spaz.life # "gone"
    /\ spaz.hold_node = "spaz" => Cardinality(spaz.grab_timers) < MaxGrabTimers
    /\ spaz' = OnPickupPress(SpazStep(spaz, "pickup_press"))
    /\ UNCHANGED <<factoryVars, boxVars, assaultVars, conquestVars, mf, oo, chat, cls, topo>>

SpazPickupRelease ==
    /\ spaz.holding_pickup
    /\ spaz' = OnPickupRelease(SpazStep(spaz, "pickup_release"))
    /\ UNCHANGED <<factoryVars, boxVars, assaultVars, conquestVars, mf, oo, chat, cls, topo>>

\* The engine: the avatar picks up a node, or the held node leaves its hands.
SpazHold(h) ==
    /\ spaz.life = "alive"
    /\ h # spaz.hold_node
    /\ "none" \in {h, spaz.hold_node}
    /\ spaz' = [SpazStep(spaz, "hold") EXCEPT !.hold_node = h]
    /\ UNCHANGED <<factoryVars, boxVars, assaultVars, conquestVars, mf, oo, chat, cls, topo>>

\* The avatar dies; its node stays for a while and is deleted then.
SpazDie ==
    /\ spaz.life # "gone"
    /\ spaz' = [SpazStep(spaz, "die")
                   EXCEPT !.life = IF @ = "alive" THEN "dead" ELSE "gone",
                          !.hold_node = "none"]
    /\ UNCHANGED <<factoryVars, boxVars, assaultVars, conquestVars, mf, oo, chat, cls, topo>>

\* The player is given a new Spaz.
SpazRespawn ==
    /\ spaz.life # "alive"
    /\ spaz' = SpazStep(NewSpaz, "respawn")
    /\ UNCHANGED <<factoryVars, boxVars, assaultVars, conquestVars, mf, oo, chat, cls, topo>>

\* A tenth of a second passes, no timer being due.
SpazTick ==
    /\ ~SpazTimerDue(spaz)
    /\ spaz' = [SpazStep(spaz, "tick")
                   EXCEPT !.grab_timers = {t - 1 : t \in @},
                          !.hold_to_wave_left = IF @ > 0 THEN @ - 1 ELSE 0,
                          !.wave_check_left = IF @ > 0 THEN @ - 1 ELSE 0,
                          !.since = IF @ < PICKUP_CD_PERSON_UNIVERSAL THEN @ + 1 ELSE @]
    /\ UNCHANGED <<factoryVars, boxVars, assaultVars, conquestVars, mf, oo, chat, cls, topo>>

\* The timer of a press runs set_grab_spaz(True).
SpazGrabTimer ==
    /\ 0 \in spaz.grab_timers
    /\ spaz' = SetGrabSpaz([SpazStep(spaz, "set_grab_spaz")
                               EXCEPT !.grab_timers = @ \ {0}], TRUE)
    /\ UNCHANGED <<factoryVars, boxVars, assaultVars, conquestVars, mf, oo, chat, cls, topo>>

\* The hold-to-wave timer runs start_waving.
SpazHoldToWaveTimer ==
    /\ spaz.hold_to_wave_timer = "pending"
    /\ spaz.hold_to_wave_left = 0
    /\ spaz' = StartWaving([SpazStep(spaz, "start_waving")
                               EXCEPT !.hold_to_wave_timer = "fired"])
    /\ UNCHANGED <<factoryVars, boxVars, assaultVars, conquestVars, mf, oo, chat, cls, topo>>

\* The repeating wave-check timer runs check_continue_waving.
SpazWaveCheckTimer ==
    /\ spaz.wave_check_timer
    /\ spaz.wave_check_left = 0
    /\ spaz' = CheckContinueWaving([SpazStep(spaz, "check_continue_waving")
                                       EXCEPT !.wave_check_left = WaveCheckTime])
    /\ UNCHANGED <<factoryVars, boxVars, assaultVars, conquestVars, mf, oo, chat, cls, topo>>

\* Time and the timers.
SpazTimers ==
    SpazTick \/ SpazGrabTimer \/ SpazHoldToWaveTimer \/ SpazWaveCheckTimer

(***************************************************************************)
(*                             Specifications                              *)
(***************************************************************************)

\* Every component as constructed, with the smallest settings.
Init ==
    /\ factory = NewFactory
    /\ fcall = NoCall
    /\ box = NoBox
    /\ boxObs = NoBoxObs
    /\ ag = NewAssault(1, 1)
    /\ agObs = NoAsObs
    /\ cq = NewConquest(1, TRUE)
    /\ cqObs = NoCqObs
    /\ mf = NewMf
    /\ oo = NewOo(FALSE, TRUE)
    /\ chat = NoChat
    /\ cls = NewCls
    /\ topo = NewTopo(<<>>, <<>>)
    /\ spaz = NewSpaz

NextFactory == ForcedDraw \/ RandomDraw

SpecFactory == Init /\ [][NextFactory]_vars

NextBox ==
    \/ \E posLen \in 0..MaxPosLen, ptype \in PowerupTypes \cup {BadType},
          expire \in BOOLEAN : Construct(posLen, ptype, expire)
    \/ HandleAccept
    \/ HandleTouched
    \/ HandleDieMessage
    \/ HandleOutOfBounds
    \/ HandleHit
    \/ NodeDeleteTimer
    \/ StartFlashing
    \/ ExpireTimer

SpecBox == Init /\ [][NextBox]_vars

\* An AssaultGame with any of the settings within the bounds.
InitAssault ==
    /\ factory = NewFactory
    /\ fcall = NoCall
    /\ box = NoBox
    /\ boxObs = NoBoxObs
    /\ \E ct \in 1..MaxCaptureTime, stw \in 1..MaxScoreToWin :
          ag = NewAssault(ct, stw)
    /\ agObs = NoAsObs
    /\ cq = NewConquest(1, TRUE)
    /\ cqObs = NoCqObs
    /\ mf = NewMf
    /\ oo = NewOo(FALSE, TRUE)
    /\ chat = NoChat
    /\ cls = NewCls
    /\ topo = NewTopo(<<>>, <<>>)
    /\ spaz = NewSpaz

NextAssault ==
    \/ UpdateCaptureTimer
    \/ \E team \in AsTeams, p \in AsPlayers : HandleBaseConnect(team, p)
    \/ \E team \in AsTeams, p \in AsPlayers : HandleBaseDisconnect(team, p)
    \/ \E p \in AsPlayers : AsPlayerDied(p)
    \/ \E p \in AsPlayers : AsRespawn(p)

SpecAssault == InitAssault /\ [][NextAssault]_vars

\* A ConquestGame with any of the settings within the bounds.
InitConquest ==
    /\ factory = NewFactory
    /\ fcall = NoCall
    /\ box = NoBox
    /\ boxObs = NoBoxObs
    /\ ag = NewAssault(1, 1)
    /\ agObs = NoAsObs
    /\ \E rate \in 1..MaxCaptureRate, neutral \in BOOLEAN :
          cq = NewConquest(rate, neutral)
    /\ cqObs = NoCqObs
    /\ mf = NewMf
    /\ oo = NewOo(FALSE, TRUE)
    /\ chat = NoChat
    /\ cls = NewCls
    /\ topo = NewTopo(<<>>, <<>>)
    /\ spaz = NewSpaz

NextConquest ==
    \/ \E n \in 1..MaxFlags : OnBegin(n)
    \/ CqTick
    \/ \E f \in 1..MaxFlags, p \in CqPlayers : CqConnect(f, p)
    \/ \E f \in 1..MaxFlags, p \in CqPlayers : CqDisconnect(f, p)
    \/ CqTeamJoin
    \/ \E p \in CqPlayers : CqPlayerDied(p)
    \/ \E p \in CqPlayers : CqRespawn(p)

SpecConquest == InitConquest /\ [][NextConquest]_vars

\* A Musical Flags game.
NextMf ==
    \/ MfOnBegin
    \/ MfFire
    \/ \E p \in MfPlayers : MfJoin(p)
    \/ \E p \in MfPlayers : MfLeave(p)
    \/ \E p \in MfPlayers : MfPickup(p)
    \/ \E p \in MfPlayers : MfDie(p)

SpecMf == Init /\ [][NextMf]_vars

\* A One-o-One game with any of the two settings.
InitOo ==
    /\ factory = NewFactory
    /\ fcall = NoCall
    /\ box = NoBox
    /\ boxObs = NoBoxObs
    /\ ag = NewAssault(1, 1)
    /\ agObs = NoAsObs
    /\ cq = NewConquest(1, TRUE)
    /\ cqObs = NoCqObs
    /\ mf = NewMf
    /\ \E neg \in BOOLEAN, heal \in BOOLEAN : oo = NewOo(neg, heal)
    /\ chat = NoChat
    /\ cls = NewCls
    /\ topo = NewTopo(<<>>, <<>>)
    /\ spaz = NewSpaz

NextOo ==
    \/ OoOnBegin
    \/ OoAdvance
    \/ OoUpdateFire
    \/ OoRefillFire
    \/ OoEndGame
    \/ \E p \in OoPlayers : OoJoin(p)
    \/ \E p \in OoPlayers : OoLeave(p)
    \/ \E a \in OoPlayers, v \in OoPlayers, d \in OoHits : OoHit(a, v, d)
    \/ \E p \in OoPlayers : OoFall(p)

SpecOo == InitOo /\ [][NextOo]_vars

\* One-o-One with time that never stops, for the progress of the queue.
\* Allow Negative Scores is off, which bounds the scores; the hits are
\* lethal ones and the deaths are kills and falls.
InitOoLive ==
    /\ factory = NewFactory
    /\ fcall = NoCall
    /\ box = NoBox
    /\ boxObs = NoBoxObs
    /\ ag = NewAssault(1, 1)
    /\ agObs = NoAsObs
    /\ cq = NewConquest(1, TRUE)
    /\ cqObs = NoCqObs
    /\ mf = NewMf
    /\ \E heal \in BOOLEAN : oo = NewOo(FALSE, heal)
    /\ chat = NoChat
    /\ cls = NewCls
    /\ topo = NewTopo(<<>>, <<>>)
    /\ spaz = NewSpaz

\* The passing of time and the timers that are due.
OoTimers ==
    \/ OoAdvanceOn
    \/ OoUpdateFire
    \/ OoRefillFire
    \/ OoEndGame

NextOoLive ==
    \/ OoOnBegin
    \/ OoTimers
    \/ \E p \in OoPlayers : OoJoin(p)
    \/ \E p \in OoPlayers : OoLeave(p)
    \/ \E a \in OoPlayers, v \in OoPlayers : OoHit(a, v, HpMax)
    \/ \E p \in OoPlayers : OoFall(p)

\* The engine runs every timer that is due, and its clock goes on.
SpecOoLive == InitOoLive /\ [][NextOoLive]_vars /\ WF_vars(OoTimers)

\* The chat handler of a hosted game.
NextChat ==
    \/ \E msg \in ChatMsgs, found \in BOOLEAN : HandleChatMessage(msg, found)
    \/ ResetChat
    \/ ChatTick
    \/ ChatPause
    \/ ChatSpaz

SpecChat == Init /\ [][NextChat]_vars

\* The class patching of nst/actor/spaz.py, in any order.
NextCls ==
    \/ ClsClone
    \/ \E source \in [ClsNames -> SourceKinds] : ClsReplace(source)
    \/ \E name \in ClsNames : ClsCall(name)

SpecCls == Init /\ [][NextCls]_vars

\* Conquest's last stand and spawning, for every ownership of the flags.
InitTopo ==
    /\ factory = NewFactory
    /\ fcall = NoCall
    /\ box = NoBox
    /\ boxObs = NoBoxObs
    /\ ag = NewAssault(1, 1)
    /\ agObs = NoAsObs
    /\ cq = NewConquest(1, FALSE)
    /\ cqObs = NoCqObs
    /\ mf = NewMf
    /\ oo = NewOo(FALSE, TRUE)
    /\ chat = NoChat
    /\ cls = NewCls
    /\ spaz = NewSpaz
    /\ \E n \in 1..MaxTopoFlags :
          \E team \in [1..n -> TopoOwners], contested \in [1..n -> BOOLEAN] :
             topo = NewTopo(team, contested)

NextTopo ==
    \/ \E f \in 1..MaxTopoFlags, prior \in TopoOwners : TopoCheckLastStand(f, prior)
    \/ \E t \in TopoTeams, i \in 0..(MaxTopoFlags - 1) : TopoSpawnPlayer(t, i)

SpecTopo == InitTopo /\ [][NextTopo]_vars

\* One avatar, its player's input, the engine and the timers.
NextSpaz ==
    \/ SpazPunchPress
    \/ SpazPunchRelease
    \/ \E blocked \in BOOLEAN : SpazBombPress(blocked)
    \/ SpazPickupPress
    \/ SpazPickupRelease
    \/ \E h \in HoldNodes : SpazHold(h)
    \/ SpazDie
    \/ SpazRespawn
    \/ SpazTimers

\* The host runs every timer that is due, and time goes on.
SpecSpaz == Init /\ [][NextSpaz]_vars /\ WF_vars(SpazTimers)

(***************************************************************************)
(*                                 Claims                                  *)
(***************************************************************************)

\* C1 (as amended): whenever a call returns 'curse', the call that follows it
\* directly, if made without forcetype, returns 'health'.
C1_CurseThenHealth ==
    (fcall.forcetype = None /\ fcall.prev = "curse") => fcall.ret = "health"

\* C1 witness: an unforced call made right after a call that returned 'curse'.
C1_Witness ==
    /\ fcall.forcetype = None
    /\ fcall.prev = "curse"
    /\ fcall.ret = "health"

\* C1 (original): whenever a call returns 'curse', the next call made without
\* forcetype (whatever forced calls come in between) returns 'health'.
C1_NextUnforcedIsHealth ==
    (fcall.forcetype = None /\ fcall.owed) => fcall.ret = "health"

\* C2: for every non-empty excludetypes that leaves a type eligible, after any
\* earlier draws, a call without forcetype never returns a member of
\* excludetypes.
C2_ExclusionRespected ==
    (/\ fcall.forcetype = None
     /\ fcall.ret # None
     /\ fcall.nExcluded > 0
     /\ fcall.nExcluded < Cardinality(PowerupTypes))
        => ~fcall.retExcluded

\* C3: when two PowerupAcceptMessages are delivered to one box the sound and
\* popup sequence fires only once, and the box is deleting or deleted after
\* the first.
C3_GrantSequenceOnce ==
    /\ boxObs.grantSeq <= 1
    /\ boxObs.accepts >= 1 => box.node \in {"dying", "deleted"}

\* C4: a position without exactly 3 coordinates, or an unknown type, fails
\* with ValueError and creates no node; a 3-coordinate position with a known
\* type succeeds and the box exposes that poweruptype.
C4_ConstructionValidated ==
    box.ctor # None =>
        IF boxObs.posLen = 3 /\ boxObs.argType \in PowerupTypes
        THEN /\ box.ctor = "ok"
             /\ box.poweruptype = boxObs.argType
             /\ box.node # None
        ELSE /\ box.ctor = "ValueError"
             /\ box.node = None

\* C4 witness: a constructor call with a 4-coordinate position was rejected.
C4_Witness ==
    /\ box.ctor = "ValueError"
    /\ boxObs.posLen = 4
    /\ boxObs.argType = "health"

AsTotalScore(g) == g.score[1] + g.score[2] + g.score[3]

\* The teams of the live players of a capturing list.
AsLiveTeams(g, team) ==
    {AsTeamOf(p) : p \in {q \in SeqToSet(g.capturing_players[team]) : g.alive[q]}}

\* C5: a tick of _update_capture_timer that finds players of two different
\* teams in a team's capturing list resets that team's capture timer to the
\* Capture Time, empties the list and produces no score for that base.
C5_MixedContestResets ==
    [][ag'.time = ag.time + 1 =>
          \A t \in AsTeams :
              Cardinality(AsLiveTeams(ag, t)) >= 2 =>
                  /\ ag'.capture_timer[t] = ag.capture_time
                  /\ ag'.capturing_players[t] = <<>>
                  /\ t \notin agObs'.scored]_vars

\* C5 witness: a tick has just reset a base contested by two teams.
C5_Witness ==
    /\ agObs.mixed # {}
    /\ \A t \in agObs.mixed : ag.capturing_players[t] = <<>>

\* C6: when _handle_score is invoked twice at the same host time, the score
\* rises by exactly 1 in total.
C6_OneScorePerTimestamp ==
    [][(ag'.time = ag.time + 1 /\ agObs'.scoreCalls >= 2) =>
          AsTotalScore(ag') = AsTotalScore(ag) + 1]_vars

\* C6 witness: one tick has invoked _handle_score for two bases.
C6_Witness ==
    /\ agObs.scoreCalls >= 2
    /\ agObs.scored # {}


\* The live players in the region of flag f.
CqLive(g, f) == {p \in g.players_contesting[f] : g.alive[p]}

\* C7: the capture timer of every ConquestFlag stays within
\* [0, capture_rate].
C7_TimerInRange ==
    cq.begun =>
        \A f \in CqFlags(cq) :
            cq.capture_time[f] >= 0 /\ cq.capture_time[f] <= cq.capture_rate

\* C7 witness: a tick has clamped the timer of a flag its owner stands on,
\* while the timer of another flag has been run down part of the way.
C7_Witness ==
    /\ cqObs.clamped # {}
    /\ \E f \in CqFlags(cq) : cq.capture_time[f] < cq.capture_rate

\* C8: when the live players in a flag's region are of a single team, the
\* flag has no owner (or, with Neutral Flags on Capture off, an owner other
\* than that team), progress is not locked out and the tick brings the timer
\* to zero or below, then on that tick the flag's owner becomes that team and
\* its timer is reset to exactly capture_rate.
C8_CaptureCompletes ==
    [][(cq.begun /\ cq'.time = cq.time + 1) =>
         \A f \in CqFlags(cq) : \A t \in CqTeams :
            (/\ CqLive(cq, f) # {}
             /\ \A p \in CqLive(cq, f) : CqTeamOf(p) = t
             /\ \/ cq.team[f] = NoTeam
                \/ ~cq.neutral_flags_on_capture /\ cq.team[f] # t
             /\ ~LockedOut([cq EXCEPT !.time = @ + 1], f, t)
             /\ cq.capture_time[f] - Min(Cardinality(CqLive(cq, f)), 3) <= 0)
            => /\ cq'.team[f] = t
               /\ cq'.capture_time[f] = cq.capture_rate]_vars

\* C8 witness: a tick has given a flag to a capturing team, and the timer of
\* that flag is back at capture_rate.
C8_Witness ==
    \E f \in cqObs.captured :
        /\ cq.team[f] # NoTeam
        /\ cq.capture_time[f] = cq.capture_rate

\* C9: with Neutral Flags on Capture enabled, no step changes a flag's owner
\* from one team to another team: an owned flag changes to neutral only.
C9_OwnerChangesViaNeutral ==
    [][(cq.begun /\ cq.neutral_flags_on_capture) =>
         \A f \in CqFlags(cq) :
            (cq.team[f] # NoTeam /\ cq'.team[f] # cq.team[f])
            => cq'.team[f] = NoTeam]_vars

\* C9 witness: with the setting enabled, a tick has made an owned flag
\* neutral.
C9_Witness ==
    /\ cq.neutral_flags_on_capture
    /\ \E f \in cqObs.neutralized : cq.team[f] = NoTeam

\* C10: in a step that changes the ownership of a flag and leaves one team
\* owning all N >= 1 flags, end_game is invoked and its results report
\* flags_held = N for that team.
C10_AllFlagsEndsGame ==
    [][(cq'.begun /\ cq'.team # cq.team) =>
         \A t \in CqTeams :
            (\A f \in CqFlags(cq') : cq'.team[f] = t)
            => /\ cq'.end_calls > cq.end_calls
               /\ cq'.results[t] = cq'.nflags]_vars

\* C10 witness: a capture (not the hand-out of on_begin) has left one team
\* with both flags, and end_game has reported it.
C10_Witness ==
    /\ cq.nflags > 1
    /\ cqObs.captured # {}
    /\ \E t \in CqTeams :
          /\ \A f \in CqFlags(cq) : cq.team[f] = t
          /\ cq.end_calls > 0
          /\ cq.results[t] = cq.nflags


\* No player is spawned after losing survived, except in the round in which
\* the player lost it.
MfSpawnsOnlySurvivors ==
    \A p \in mf.spawnedNow :
        mf.survived[p] \/ (mf.lostRound[p] > 0 /\ mf.roundNum = mf.lostRound[p])

\* C11: when the round countdown reaches 0, every player spawned for the
\* round who has not grabbed a flag has survived set to false, and a player
\* without survived is never spawned or respawned in a later round.
C11_TimeoutEliminates ==
    [][/\ (mf.round_time = 0 /\ mf.should_die_occur /\ ~mf'.should_die_occur)
           => \A p \in mf.spawned : ~mf.done[p] => ~mf'.survived[p]
       /\ MfSpawnsOnlySurvivors']_vars

\* C11 witness: the countdown has just run out on a player without a flag,
\* in a round in which another player took one.
C11_Witness ==
    /\ mf.eliminatedNow # {}
    /\ ~mf.should_die_occur
    /\ mf.numPickedUp > 0

\* C12: when the game ends with exactly one player still marked survived,
\* that player's team has been given the bonus of 10 once.
C12_SingleBonus ==
    (mf.end_calls > 0 /\ Cardinality(MfSurvivors(mf)) = 1)
        => \A p \in MfSurvivors(mf) : mf.bonus[MfTeamOf(p)] = MfBonus

\* C13: a death without a distinct killer takes exactly 1 off the victim's
\* score when Allow Negative Scores is on and leaves max(0, score - 1) when
\* it is off; with the setting off no score is ever negative.
C13_SuicideScoreClamped ==
    /\ (oo.death.victim # NoPlayer
          /\ oo.death.killer \in {NoPlayer, oo.death.victim})
       => oo.score[oo.death.victim] =
             IF oo.allow_negative_scores \/ oo.death.scoreBefore >= 1
             THEN oo.death.scoreBefore - 1
             ELSE 0
    /\ ~oo.allow_negative_scores => \A p \in OoPlayers : oo.score[p] >= 0

\* C13 witness: with the setting off, a player at score 0 has died without a
\* killer and is still at 0.
C13_Witness ==
    /\ ~oo.allow_negative_scores
    /\ oo.death.victim # NoPlayer
    /\ oo.death.killer = NoPlayer
    /\ oo.death.scoreBefore = 0
    /\ oo.score[oo.death.victim] = 0

\* C14: with Kills Partially Heal on, a kill leaves the killer with
\* min(hitpoints_max, hitpoints + floor(hitpoints_max * tier fraction)), and
\* no hitpoints ever exceed hitpoints_max.
C14_HealCapped ==
    /\ \A p \in OoPlayers : oo.hp[p] <= HpMax
    /\ (oo.kills_heal /\ oo.death.killer # NoPlayer
          /\ oo.death.killer # oo.death.victim)
       => LET healed == oo.death.hpBefore
                          + (HpMax * HealPercent(oo.death.streak)) \div 100
          IN  oo.hp[oo.death.killer] = IF healed > HpMax THEN HpMax ELSE healed

\* C14 witness: a killer at 950 of 1000 hitpoints has made a first kill and
\* stands at 1000.
C14_Witness ==
    /\ oo.kills_heal
    /\ oo.death.killer # NoPlayer
    /\ oo.death.streak = 1
    /\ oo.death.hpBefore = 950
    /\ oo.hp[oo.death.killer] = 1000

\* C15: the chip damage of a watchdog tick is floor((elapsed - 10) * 25), that
\* is 25, 50 and 125 after 11, 12 and 15 seconds; it never decreases as the
\* elapsed time grows; and a tick with damage sends it to both duelists.
C15_ChipsBothDuelists ==
    /\ StalemateDamage(22) = 25 /\ StalemateDamage(24) = 50
    /\ StalemateDamage(30) = 125
    /\ \A a, b \in StalemateTime..MaxOoIdle :
          a <= b => StalemateDamage(a) <= StalemateDamage(b)
    /\ oo.chipDuel # <<>> =>
          /\ 2 * oo.chipDamage <= (oo.idle - StalemateTime) * 25
          /\ (oo.idle - StalemateTime) * 25 < 2 * (oo.chipDamage + 1)
    /\ oo.chipDamage > 0 => oo.chipped = SeqToSet(oo.chipDuel)

\* C16: the current-duel slot never holds more than 2 players.
C16_SlotAtMostTwo == Len(oo.current_duel) <= 2

\* C16 witness: a refill timer has run with the slot full and a player
\* waiting in the queue.
C16_Witness ==
    /\ oo.op = "refill"
    /\ Len(oo.current_duel) = 2
    /\ Len(oo.queue) >= 1

\* The positions of the ASCII letters, and of the uppercase ones, of a text.
ChatLetters(t) == {i \in 1..Len(t) : t[i] \in UpperSet \cup LowerSet}
ChatCaps(t) == {i \in 1..Len(t) : t[i] \in UpperSet}

\* C17: get_shouting is 0 for a text with fewer than 3 ASCII letters and
\* otherwise (uppercase letters) / (letters), a value in [0, 1]; "HELLO"
\* gives 1, "hello" 0, "Hi" 0 and "HeLLo!!" 3/5.
C17_ShoutingRatio ==
    /\ GetShouting(HELLO).num = GetShouting(HELLO).den
    /\ GetShouting(hello).num = 0
    /\ GetShouting(Hi).num = 0
    /\ 5 * GetShouting(HeLLo).num = 3 * GetShouting(HeLLo).den
    /\ chat.popup =>
          LET n == Cardinality(ChatLetters(chat.chatmessage))
              r == chat.shouting
          IN  /\ r.den > 0 /\ 0 <= r.num /\ r.num <= r.den
              /\ n < 3 => r.num = 0
              /\ n >= 3 =>
                    r.num * n = Cardinality(ChatCaps(chat.chatmessage)) * r.den

\* C17 witness: the popup of the single line "HeLLo!!" has the ratio 3/5.
C17_Witness ==
    /\ chat.popup
    /\ chat.chatmessage = HeLLo \o <<"\n">>
    /\ chat.shouting = [num |-> 3, den |-> 5]

C19_CloneUntouched ==
    (cls.clone # NoClass /\ cls.early)
       => /\ cls.clone = VanillaSpaz
          /\ ~cls.reentered
          /\ (cls.op = "call" /\ cls.called \in VanillaNames)
                => cls.reached = "vanilla"

\* C19 witness: after clone_object and then replace_methods, a call of the
\* patched __init__ has gone through the clone to the original.
C19_Witness ==
    /\ cls.early /\ cls.replaced
    /\ cls.live["__init__"] = "nst"
    /\ cls.clone["__init__"] = "vanilla"
    /\ cls.op = "call" /\ cls.called = "__init__"
    /\ cls.reached = "vanilla"

\* C20: a PowerupMessage is forwarded to the touching node only while
\* _powersgiven is false, and _powersgiven never goes back to false.
C20_PowersGivenLatch ==
    [][/\ box.powersgiven => box'.powersgiven
       /\ boxObs'.powerupMsgs # boxObs.powerupMsgs => ~box.powersgiven]_vars

\* C20 witness: the box forwarded a PowerupMessage, was accepted, and has
\* since been touched again without forwarding another.
C20_Witness ==
    /\ box.powersgiven
    /\ boxObs.powerupMsgs > 0
    /\ boxObs.touches > boxObs.powerupMsgs

\* C21: when a base's timer reaches 0 with capturers present and the score is
\* processed, the team of the first capturer gains exactly 1, the captured
\* team is reset to the full Capture Time with an empty list, and end_game is
\* invoked in that tick exactly when the scoring team's score is then at
\* least Score to Win.
C21_ScoreResetsAndEnds ==
    [][\A t \in AsTeams :
          t \in agObs'.scored =>
             LET scoring == AsTeamOf(ag.capturing_players[t][1])
             IN  /\ ag'.score[scoring] = ag.score[scoring] + 1
                 /\ AsTotalScore(ag') = AsTotalScore(ag) + 1
                 /\ ag'.capture_timer[t] = ag.capture_time
                 /\ ag'.capturing_players[t] = <<>>
                 /\ (ag'.end_calls > ag.end_calls
                       <=> ag'.score[scoring] >= ag.score_to_win)]_vars

\* C21 witness: a tick has scored for a base without reaching Score to Win,
\* so the game goes on with the base reset.
C21_Witness ==
    \E t \in agObs.scored :
        /\ ag.end_calls = 0
        /\ AsTotalScore(ag) = 1
        /\ ag.score_to_win = 2
        /\ ag.capture_timer[t] = ag.capture_time
        /\ ag.capturing_players[t] = <<>>

\* C22: after every tick of _update_capture_timer each team's capture timer
\* is above 0 and at most the Capture Time, also when two bases reach zero
\* on the same tick.
C22_TimerPositiveAfterTick ==
    \A t \in AsTeams :
        /\ ag.capture_timer[t] > 0
        /\ ag.capture_timer[t] <= ag.capture_time

\* C23: when the live players in a flag's region are of a single team T and
\* a different team made the last capture attempt on that flag less than 2 s
\* before the tick, the tick leaves the flag's capture timer, owner and
\* lockout bookkeeping unchanged.
C23_LockoutNoProgress ==
    [][(cq.begun /\ cq'.time = cq.time + 1) =>
         \A f \in CqFlags(cq) : \A t \in CqTeams :
            (/\ CqLive(cq, f) # {}
             /\ \A p \in CqLive(cq, f) : CqTeamOf(p) = t
             /\ cq.last_capturing_team_for_lockout[f] \notin {NoTeam, t}
             /\ cq'.time - cq.last_capture_attempt_time[f] < LockoutTime)
            => /\ cq'.capture_time[f] = cq.capture_time[f]
               /\ cq'.team[f] = cq.team[f]
               /\ cq'.previous_capturing_team[f] = cq.previous_capturing_team[f]
               /\ cq'.last_capturing_team_for_lockout[f]
                     = cq.last_capturing_team_for_lockout[f]
               /\ cq'.last_capture_attempt_time[f]
                     = cq.last_capture_attempt_time[f]]_vars

\* C23 witness: a tick has locked out a team standing alone on a flag whose
\* timer another team had run down part of the way.
C23_Witness ==
    \E f \in cqObs.locked :
        /\ CqLive(cq, f) # {}
        /\ \A p \in CqLive(cq, f) :
              CqTeamOf(p) # cq.last_capturing_team_for_lockout[f]
        /\ cq.capture_time[f] < cq.capture_rate
        /\ cq.time - cq.last_capture_attempt_time[f] < LockoutTime

\* C24: on a tick where the live players in a flag's region are all of the
\* flag's owner, the owner stays and the capture timer rises by
\* min(contester count, 3) tenths, capped at capture_rate.
C24_OwnerTickRises ==
    [][(cq.begun /\ cq'.time = cq.time + 1) =>
         \A f \in CqFlags(cq) :
            (/\ CqLive(cq, f) # {}
             /\ cq.team[f] # NoTeam
             /\ \A p \in CqLive(cq, f) : CqTeamOf(p) = cq.team[f])
            => /\ cq'.team[f] = cq.team[f]
               /\ cq'.capture_time[f]
                     = Min(cq.capture_time[f] + Min(Cardinality(CqLive(cq, f)), 3),
                           cq.capture_rate)]_vars

\* C25: after on_begin, and so after every ownership change and team join
\* that follows, each team's flags_held is the number of flags the team
\* owns, and the flags_held of all teams plus the number of neutral flags is
\* the number of flags.
C25_FlagsHeldCounts ==
    cq.begun =>
        /\ \A t \in CqTeams : cq.flags_held[t] = FlagsOf(cq, t)
        /\ cq.flags_held[1] + cq.flags_held[2] + FlagsOf(cq, NoTeam) = cq.nflags

\* C25 witness: a tick has made an owned flag neutral, and the former owner's
\* flags_held has gone down with it.
C25_Witness ==
    /\ cq.nflags = 2
    /\ cqObs.neutralized # {}
    /\ FlagsOf(cq, NoTeam) = 1
    /\ cq.flags_held[1] + cq.flags_held[2] = 1

\* C28: on a player's death a respawn is scheduled exactly when the player's
\* team owns at least one flag or at least one flag is neutral; otherwise the
\* player is left dead with no respawn scheduled.
C28_RespawnIffGround ==
    [][\A p \in CqPlayers :
          (cq.begun /\ cq.alive[p] /\ ~cq'.alive[p])
          => (cq'.respawn[p]
                <=> \/ FlagsOf(cq, CqTeamOf(p)) >= 1
                    \/ FlagsOf(cq, NoTeam) >= 1)]_vars

\* C28 witness: a player whose team owns a flag has died and waits for the
\* respawn, while a dead player of the team without flags, no flag being
\* neutral, has none scheduled.
C28_Witness ==
    /\ cq.begun
    /\ FlagsOf(cq, NoTeam) = 0
    /\ \E p, q \in CqPlayers :
          /\ ~cq.alive[p] /\ cq.respawn[p] /\ FlagsOf(cq, CqTeamOf(p)) >= 1
          /\ ~cq.alive[q] /\ ~cq.respawn[q] /\ FlagsOf(cq, CqTeamOf(q)) = 0

\* The flags other than f.
TopoOthers(c, f) == TopoFlags(c) \ {f}

\* Every flag other than f belongs to one single team, and that team is not
\* team t.
OneOtherTeamHasRest(c, f, t) ==
    \E u \in TopoTeams \ {t} : \A h \in TopoOthers(c, f) : c.team[h] = u

\* C26: _check_last_stand labels an owned flag "Last stand!" in its owner's
\* colour exactly when the owner holds that flag only and every other flag
\* is owned by one single other team; in every other case the status colour
\* is reset to white.
C26_LastStandExact ==
    (topo.op = "check_last_stand" /\ topo.team[topo.flag] # NoTeam)
    => LET f == topo.flag
           owner == topo.team[f]
           last == /\ TopoFlagsHeld(topo, owner) = 1
                   /\ OneOtherTeamHasRest(topo, f, owner)
       IN  IF last
           THEN topo.text = "Last stand!" /\ topo.color = TeamColor(owner)
           ELSE topo.text # "Last stand!" /\ topo.color = WhiteColor

\* C27: the spawn index is the team's single flag when the team holds
\* exactly one flag; else an owned flag with nobody in its region; else a
\* flag of another team; else a neutral flag; else team_index mod
\* spawn_count.  It is always a valid index.
C27_SpawnOrder ==
    topo.op = "spawn_player"
    => LET t == topo.player_team
           i == topo.spawn
           n == Len(topo.team)
           f == i + 1
           owned == {h \in TopoFlags(topo) : topo.team[h] = t}
           free == {h \in owned : ~topo.contested[h]}
           enemy == {h \in TopoFlags(topo) : topo.team[h] \notin {NoTeam, t}}
           neutral == {h \in TopoFlags(topo) : topo.team[h] = NoTeam}
       IN  /\ i \in 0..(n - 1)
           /\ IF Cardinality(owned) = 1 THEN f \in owned
              ELSE IF free # {} THEN f \in free
              ELSE IF enemy # {} THEN f \in enemy
              ELSE IF neutral # {} THEN f \in neutral
              ELSE i = (t - 1) % n

\* C27 witness: a player of a team whose single flag has players in its
\* region is spawned at that flag, flags of another team being there too.
C27_Witness ==
    /\ topo.op = "spawn_player"
    /\ TopoFlagsHeld(topo, topo.player_team) = 1
    /\ topo.team[topo.spawn + 1] = topo.player_team
    /\ topo.contested[topo.spawn + 1]
    /\ \E h \in TopoFlags(topo) : topo.team[h] \notin {NoTeam, topo.player_team}

\* The spawned player's team holds one flag and one other team all the rest.
TopoLastStandSpawn ==
    /\ topo.op = "spawn_player"
    /\ Len(topo.team) >= 2
    /\ TopoFlagsHeld(topo, topo.player_team) = 1
    /\ \E f \in TopoFlags(topo) :
          /\ topo.team[f] = topo.player_team
          /\ OneOtherTeamHasRest(topo, f, topo.player_team)

\* C29 (as stated): a player spawned while the team holds exactly one flag
\* and every other flag belongs to the other team has a decaying shield of
\* 20 hit points.
C29_ShieldTwentyHitpoints ==
    TopoLastStandSpawn
    => topo.shield.hitpoints = 20 /\ topo.shield.decay_rate > 0

\* C29 (amended): such a player has a shield of SHIELD_HP hit points that
\* decays at rate 20.
C29_ShieldDecaysAtTwenty ==
    TopoLastStandSpawn
    => /\ topo.shield.hitpoints = SHIELD_HP
       /\ topo.shield.decay_rate = LastStandDecayRate

\* C29 witness: a player of a team down to one of three flags, the other two
\* being one other team's, has been spawned with the shield.
C29_Witness ==
    /\ TopoLastStandSpawn
    /\ Len(topo.team) = 3
    /\ topo.shield # NoShield

\* C30: when a pickup brings the pickup counter to the number of flags
\* spawned this round, every player spawned for the round who has not
\* grabbed a flag is marked survived = false, and killRound and makeRound
\* are scheduled 3.5 s and 3.55 s later.
C30_AllFlagsTakenEndsRound ==
    [][(mf'.numPickedUp = mf.numPickedUp + 1 /\ mf'.numPickedUp = mf'.nflags)
       => /\ \A q \in mf.spawned : ~mf'.done[q] => ~mf'.survived[q]
          /\ BagIn([rem |-> MfKillDelay, kind |-> "killRound", p |-> NoPlayer],
                   mf'.timers)
          /\ BagIn([rem |-> MfMakeDelay, kind |-> "makeRound", p |-> NoPlayer],
                   mf'.timers)]_vars

\* C30 witness: the last flag of a round has just been picked up, a player
\* spawned without a flag has lost survived, and the two timers are pending
\* with their full delays.
C30_Witness ==
    /\ mf.nflags > 0
    /\ mf.numPickedUp = mf.nflags
    /\ \E q \in mf.eliminatedNow : q \in mf.spawned /\ ~mf.done[q] /\ ~mf.survived[q]
    /\ BagIn([rem |-> MfKillDelay, kind |-> "killRound", p |-> NoPlayer], mf.timers)
    /\ BagIn([rem |-> MfMakeDelay, kind |-> "makeRound", p |-> NoPlayer], mf.timers)

\* C31: over a whole match the last-survivor bonus of 10 is added to a
\* team's score at most once, however many times checkEnd runs.
C31_BonusAtMostOnce ==
    \A t \in MfTeams : mf.bonus[t] <= MfBonus

\* The pending timers of a kind.
MfPending(m, kind) == {t \in BagToSet(m.timers) : t.kind = kind}

\* C32: each round is ended at most once: the killRound/makeRound pair is
\* never scheduled again while the pair of the round is pending, so no two
\* makeRound timers (or killRound timers) are pending together.
C32_RoundEndsOnce ==
    \A kind \in {"killRound", "makeRound"} :
        /\ Cardinality(MfPending(mf, kind)) <= 1
        /\ \A t \in MfPending(mf, kind) : CopiesIn(t, mf.timers) = 1

\* The players who joined after on_begin: without survived, though no round
\* took it from them.
MfLateJoiners(m) ==
    {p \in m.players \cup m.gone : ~m.survived[p] /\ m.lostRound[p] = 0}

\* C33: survived only changes from true to false; a player who joins after
\* the game has begun has survived = false from the join on, is never
\* spawned, and a score only rises for a team with a surviving player.
C33_SurvivedOnlyFalls ==
    [][/\ \A p \in MfPlayers : ~mf.survived[p] => ~mf'.survived[p]
       /\ \A p \in MfPlayers :
             (mf.begun /\ p \notin mf.players /\ p \in mf'.players)
             => ~mf'.survived[p]
       /\ \A p \in MfLateJoiners(mf') :
             ~mf'.alive[p] /\ p \notin mf'.spawnedNow /\ p \notin mf'.spawned
       /\ \A t \in MfTeams :
             mf'.score[t] > mf.score[t]
             => \E p \in MfSurvivors(mf) : MfTeamOf(p) = t]_vars

\* C33 witness: the game is over, a player who joined after on_begin is
\* there without ever having been spawned, and only the other team has
\* scored.
C33_Witness ==
    /\ mf.end_calls > 0
    /\ \E p \in MfLateJoiners(mf) :
          /\ p \in mf.players
          /\ ~mf.alive[p]
          /\ mf.score[MfTeamOf(p)] = 0
          /\ \E t \in MfTeams : mf.score[t] > 0

\* A death less than 1.5 s ago: its _start_next_duel timer is still running.
OoRecentDeath(m) == \E t \in m.refills : t > 0

\* C34: when a duelist dies the victim leaves the duel slot for the back of
\* the queue, and no player enters the slot until 1.5 s have passed since
\* the death, whatever joins or leaves happen in between.
C34_RefillAfterDelay ==
    [][/\ (oo'.death.victim # NoPlayer
             /\ oo'.death.victim \in SeqToSet(oo.current_duel))
          => /\ oo'.death.victim \notin SeqToSet(oo'.current_duel)
             /\ oo'.queue # <<>>
             /\ oo'.queue[Len(oo'.queue)] = oo'.death.victim
       /\ (oo.begun /\ OoRecentDeath(oo))
          => SeqToSet(oo'.current_duel) \subseteq SeqToSet(oo.current_duel)]_vars

\* A sequence that holds no player twice.
OoNoRepeat(q) == Cardinality(SeqToSet(q)) = Len(q)

\* C35: after on_begin the queue and the duel slot are disjoint, neither
\* holds a player twice, and together they hold exactly the joined players.
C35_QueueSlotPartition ==
    oo.begun =>
        /\ SeqToSet(oo.queue) \cap SeqToSet(oo.current_duel) = {}
        /\ OoNoRepeat(oo.queue)
        /\ OoNoRepeat(oo.current_duel)
        /\ SeqToSet(oo.queue) \cup SeqToSet(oo.current_duel) = oo.players

\* C35 witness: a duelist of a three-player game has just died and waits at
\* the back of the queue behind the third player.
C35_Witness ==
    /\ oo.begun
    /\ oo.death.victim # NoPlayer
    /\ Len(oo.current_duel) = 1
    /\ Len(oo.queue) = 2
    /\ oo.queue[2] = oo.death.victim

\* A player waits in the queue beside a free place in the duel slot.
OoWaitsBesideFreeSlot ==
    /\ oo.begun /\ ~oo.ended
    /\ Len(oo.current_duel) < 2
    /\ oo.queue # <<>>

\* C36: whenever the duel slot holds fewer than 2 players and the queue is
\* not empty, the timers firing, the wait ends: the slot is filled from the
\* queue (or the queue has emptied, or the game has ended).
C36_QueueProgress ==
    OoWaitsBesideFreeSlot ~> ~OoWaitsBesideFreeSlot

\* C36 witness: the refill timer of a death has brought the victim, who
\* waited alone in the queue, back into the slot.
C36_Witness ==
    /\ oo.op = "refill"
    /\ Len(oo.current_duel) = 2
    /\ oo.queue = <<>>
    /\ \E p \in SeqToSet(oo.current_duel) : oo.hp[p] = HpMax

\* C37: stalemate damage is applied only on watchdog ticks with exactly 2
\* players in the duel slot and more than 10 s since the last combat action;
\* a hit whose source player differs from the target restarts the clock and
\* removes both duelists' warning lights; the stalemate hit itself does not
\* restart the clock.
C37_StalemateClock ==
    [][/\ oo'.chipped # {}
          => /\ oo'.op = "update"
             /\ Len(oo.current_duel) = 2
             /\ oo.idle > StalemateTime
       /\ oo'.op = "hit"
          => /\ oo'.idle = 0
             /\ \A p \in SeqToSet(oo.current_duel) : ~oo'.light[p]
       /\ oo'.op = "update" => oo'.idle = oo.idle]_vars

\* C37 witness: a hit between the duelists has restarted the clock and taken
\* away the warning lights that a watchdog tick had lit.
C37_Witness ==
    /\ oo.op = "hit"
    /\ oo.cleared # {}
    /\ oo.idle = 0
    /\ \A p \in OoPlayers : ~oo.light[p]

\* C38: after every punch, bomb or pickup press made by a live avatar while
\* it holds another avatar, can_grab_spaz is false for the following 0.8 s
\* and is re-enabled after that, also when the press comes less than 0.8 s
\* after an earlier one.
C38_GrabDisabledForCooldown ==
    /\ (spaz.life = "alive" /\ spaz.since < PICKUP_CD_PERSON_UNIVERSAL)
       => ~spaz.can_grab_spaz
    /\ (spaz.life = "alive" /\ spaz.grab_timers = {}) => spaz.can_grab_spaz

\* One of the three events has happened to a waving Spaz.
SpazWaveEnded ==
    /\ spaz.waving
    /\ \/ ~spaz.holding_pickup
       \/ spaz.life # "alive"
       \/ spaz.hold_node # "none"

\* C39: while a Spaz is waving, the release of the pickup button, the end of
\* the avatar's being alive and a grab each lead to waving = false, the
\* wave-check timer cancelled and the wave sound node deleted.
C39_WavingStops ==
    SpazWaveEnded
    ~> (~spaz.waving /\ ~spaz.wave_check_timer /\ ~spaz.wave_sound_node)

\* C40: in_game_chat appends each accepted message to the avatar's text
\* buffer and the buffer is cleared 3 s after the most recent accepted
\* message: a pending reset is cancelled when a new message arrives, so the
\* buffer is never cleared less than 3 s after the latest line.
C40_ResetAfterLatestLine ==
    [][/\ (chat'.op = "chat" /\ chat'.popup)
          => /\ chat'.chatmessage = chat.chatmessage \o chat'.msg \o <<"\n">>
             /\ chat'.chatnodetime = <<ChatResetTime>>
       /\ chat'.op = "reset_chat"
          => chat.since = ChatResetTime /\ chat'.chatmessage = <<>>
       /\ chat'.chatmessage # <<>>
          => chat'.chatnodetime = <<ChatResetTime - chat'.since>>]_vars

\* C40 witness: reset_chat has cleared a buffer of two or more lines.
C40_Witness ==
    /\ chat.op = "reset_chat"
    /\ chat.chatmessage = <<>>
    /\ Cardinality({i \in DOMAIN chat.cleared : chat.cleared[i] = "\n"}) >= 2

=============================================================================
